---- MODULE Spec2Model ----
(***************************************************************************)
(* The account state database of dvm/ethereum/state/statedb.go.           *)
(*                                                                         *)
(* A StateDB is a record (the Go struct's fields); every method is an      *)
(* operator from a StateDB record to the StateDB record it leaves behind,  *)
(* and every action applies one method to one StateDB instance.            *)
(*                                                                         *)
(* Collaborators.  The account trie is its content, a function from        *)
(* addresses to encoded accounts; a hash is the content it commits to, so  *)
(* trie.Hash() is the content and two tries have the same root exactly     *)
(* when they hold the same entries.  A storage trie is likewise a function *)
(* from slot keys to values with 0 for an absent slot.  The Database       *)
(* resolves every hash handed back to it; the injected faults are the      *)
(* account trie's TryGet, TryUpdate and TryDelete, which fail as `faulty`  *)
(* says, an OpenTrie that fails in Reset and a CommitTrie that fails in    *)
(* Commit.                                                                 *)
(*                                                                         *)
(* state_object.go and journal.go are not among the source files: the      *)
(* stateObject methods and the journal are written from sections 4.1 to    *)
(* 4.3 of the specification.                                               *)
(***************************************************************************)
EXTENDS Integers, Sequences, FiniteSets, TLC

VARIABLES
  sdb,      \* the StateDB instances: sdb[i] is a StateDB record
  badger,   \* the process-wide Badger account store createObject consults
  hist,     \* what the last operation was, on what, and what it returned
  snaps,    \* snaps[i][id]: the StateDB i as it was when Snapshot() returned id
  budget    \* operations the behaviour may still take

vars == <<sdb, badger, hist, snaps, budget>>

\* ------------------------------------------------------------------ bounds

MaxBal == 2          \* balances range over 0..MaxBal
MaxJournal == 3      \* journal entries between two Finalise/Commit calls
MaxRevisions == 2    \* Snapshot() calls in the lifetime of one StateDB
MaxOps == 3          \* operations in one behaviour of Spec
MaxSnapOps == 5      \* operations in one behaviour of SpecSnap
MaxTxnOps == 6       \* operations in one behaviour of SpecTxns
MaxPairOps == 4      \* operations in one behaviour of SpecPair
MaxCopyOps == 4      \* operations in one behaviour of SpecCopy
MaxResetOps == 5     \* operations in one behaviour of SpecReset
MaxFreshOps == 7     \* operations in one behaviour of SpecFresh
MaxTotalOps == 3     \* operations in one behaviour of SpecTotal
MaxImageOps == 5     \* operations in one behaviour of SpecImage
MaxLogOps == 5       \* operations in one behaviour of SpecLogs
MaxIdOps == 5        \* operations in one behaviour of SpecIds
MaxDirtyOps == 5     \* operations in one behaviour of SpecDirty
MaxCommitOps == 4    \* operations in one behaviour of SpecCommit
MaxErrOps == 4       \* operations in one behaviour of SpecErr
MaxFinaliseOps == 5  \* operations in one behaviour of SpecFinalise
MaxBoundaryOps == 5  \* operations in one behaviour of SpecBoundary
MaxSuicideOps == 5   \* operations in one behaviour of SpecSuicide

\* ------------------------------------------------------------------ values

Addrs == {"A", "B"}
Keys == {"k1"}
Vals == {0, 1}                \* 0 is the zero hash
Codes == {"", "c1"}           \* "" is the empty byte code
Nonces == {0, 1}
TxHashes == {"t0", "t1"}      \* "t0" is the zero hash
Images == {"p1", "p2"}
Insts == {1, 2}

NoKey == "nokey"
emptyCode == "H()"
ZeroHash == "0x0"
NoErr == "nil"

\* crypto.NewHash of a byte code
NewHash(code) == IF code = "" THEN emptyCode ELSE "H(" \o code \o ")"

\* a storage trie with no slot (an absent slot reads as the empty byte string)
EmptyStorage == [k \in Keys |-> <<>>]
NoSlots == [k \in Keys |-> -1]     \* a slot cache with no entry (-1: no entry)

\* dispatTypes.Account: the fields the account trie persists
MkAccount(n, b, r, h) == [Nonce |-> n, Balance |-> b, Root |-> r, CodeHash |-> h]

\* an account trie with no entry (an absent key reads as the empty byte string)
EmptyTrie == [a \in Addrs |-> <<>>]

\* stateObject (a nil *stateObject: exists = FALSE); db is the StateDB the
\* object points back to, the one its setters journal into
NoObject ==
  [exists |-> FALSE, db |-> 0, Nonce |-> 0, Balance |-> 0, Root |-> EmptyStorage,
   CodeHash |-> emptyCode, code |-> "", trie |-> EmptyStorage,
   cachedStorage |-> NoSlots, dirtyStorage |-> NoSlots, dirtyCode |-> FALSE, suicided |-> FALSE,
   deleted |-> FALSE, touched |-> FALSE]

\* newStateObject(db, addr, data): nil Balance and CodeHash get their defaults
newStateObject(db, data) ==
  [exists |-> TRUE, db |-> db, Nonce |-> data.Nonce, Balance |-> data.Balance,
   Root |-> data.Root, CodeHash |-> data.CodeHash,
   code |-> IF data.CodeHash = emptyCode THEN ""
            ELSE CHOOSE c \in Codes : NewHash(c) = data.CodeHash,
   trie |-> data.Root,
   cachedStorage |-> NoSlots, dirtyStorage |-> NoSlots, dirtyCode |-> FALSE,
   suicided |-> FALSE, deleted |-> FALSE, touched |-> FALSE]

\* rlp.EncodeToBytes(stateObject): the list nonce, balance, root, code hash
EncodeRLP(obj) == <<obj.Nonce, obj.Balance, obj.Root, obj.CodeHash>>

\* rlp.DecodeBytes(enc, &data)
DecodeRLP(enc) == MkAccount(enc[1], enc[2], enc[3], enc[4])

\* stateObject.empty()
empty(obj) == obj.Nonce = 0 /\ obj.Balance = 0 /\ obj.CodeHash = emptyCode

\* a slot value as the storage trie holds it: the big-endian bytes with the
\* leading zero bytes trimmed (the zero hash trims to no byte at all)
TrimLeftZeroes(v) == IF v = 0 THEN <<>> ELSE <<v>>

\* Hash.SetBytes on the decoded content of a storage trie entry
SetBytes(enc) == IF Len(enc) = 0 THEN 0 ELSE enc[1]

\* ------------------------------------------------------------- stateObject

\* stateObject.setBalance, setNonce, setCode, setState: the unjournaled setters
setBalance(s, a, amount) == [s EXCEPT !.StateObjects[a].Balance = amount]

setNonce(s, a, nonce) == [s EXCEPT !.StateObjects[a].Nonce = nonce]

setCode(s, a, codeHash, code) ==
  [s EXCEPT !.StateObjects[a].code = code,
            !.StateObjects[a].CodeHash = codeHash,
            !.StateObjects[a].dirtyCode = TRUE]

setState(s, a, key, value) ==
  [s EXCEPT !.StateObjects[a].cachedStorage[key] = value,
            !.StateObjects[a].dirtyStorage[key] = value]

\* stateObject.GetState: dirtyStorage, then cachedStorage, then the storage
\* trie, whose hit is put into cachedStorage
soGetState(s, a, key) ==
  LET obj == s.StateObjects[a]
      value == SetBytes(obj.trie[key])
  IN  IF obj.dirtyStorage[key] # -1
      THEN [s |-> s, value |-> obj.dirtyStorage[key]]
      ELSE IF obj.cachedStorage[key] # -1
      THEN [s |-> s, value |-> obj.cachedStorage[key]]
      ELSE IF Len(obj.trie[key]) > 0
      THEN [s |-> [s EXCEPT !.StateObjects[a].cachedStorage[key] = value],
            value |-> value]
      ELSE [s |-> s, value |-> 0]

\* stateObject.updateTrie: flushes dirtyStorage into the storage trie, a zero
\* value as a deletion
updateTrie(obj) ==
  [obj EXCEPT
     !.trie = [k \in Keys |->
                 IF obj.dirtyStorage[k] = -1 THEN obj.trie[k]
                 ELSE IF obj.dirtyStorage[k] = 0 THEN <<>>
                 ELSE TrimLeftZeroes(obj.dirtyStorage[k])],
     !.dirtyStorage = NoSlots]

\* stateObject.updateRoot: updateTrie, then account.StorageRoot = trie.Hash()
updateRoot(obj) == [updateTrie(obj) EXCEPT !.Root = updateTrie(obj).trie]

\* stateObject.CommitTrie: updateTrie, then the committed trie's root
CommitTrie(obj) == [updateTrie(obj) EXCEPT !.Root = updateTrie(obj).trie]

\* stateObject.deepCopy(db): a clone that shares nothing with the original and
\* points back to db
deepCopy(obj, db) == [obj EXCEPT !.db = db]

\* ----------------------------------------------------------------- journal

Entry(kind, addr) ==
  [kind |-> kind, addr |-> addr, key |-> NoKey, n |-> 0, flag |-> FALSE,
   code |-> "", obj |-> NoObject]

\* journalEntry.dirtied(): the address whose dirty bit the entry implies
dirtiedAddress(e) ==
  IF e.kind \in {"createObject", "resetObject", "suicide", "balance", "nonce",
                 "storage", "code", "touch"}
  THEN e.addr ELSE "none"

newJournal == [entries |-> <<>>, dirties |-> [a \in Addrs |-> 0]]

\* journal.append(entry)
append(j, e) ==
  [entries |-> Append(j.entries, e),
   dirties |-> IF dirtiedAddress(e) \in Addrs
               THEN [j.dirties EXCEPT ![dirtiedAddress(e)] = @ + 1]
               ELSE j.dirties]

\* the addresses of journal.dirties
DirtyAddrs(j) == {a \in Addrs : j.dirties[a] > 0}

\* the visible object at an address of the live set (nil when none)
Live(s, a) ==
  IF s.StateObjects[a].exists /\ ~s.StateObjects[a].deleted
  THEN s.StateObjects[a] ELSE NoObject

\* journalEntry.undo(state) for each kind of delta; an undo that needs the
\* object at its address and finds none there dereferences nil
undo(s, e) ==
  LET a == e.addr
      seen == e.kind \in {"createObject", "resetObject", "refund", "addLog",
                          "addPreimage"}
              \/ Live(s, a).exists
  IN  IF ~seen THEN [s EXCEPT !.panicked = TRUE]
      ELSE CASE e.kind = "createObject" ->
                  [s EXCEPT !.StateObjects[a] = NoObject]
             [] e.kind = "resetObject" ->
                  [s EXCEPT !.StateObjects[a] = e.obj]
             [] e.kind = "suicide" ->
                  [s EXCEPT !.StateObjects[a].suicided = e.flag,
                            !.StateObjects[a].Balance = e.n]
             [] e.kind = "balance" ->
                  [s EXCEPT !.StateObjects[a].Balance = e.n]
             [] e.kind = "nonce" ->
                  [s EXCEPT !.StateObjects[a].Nonce = e.n]
             [] e.kind = "storage" ->
                  [s EXCEPT !.StateObjects[a].cachedStorage[e.key] = e.n,
                            !.StateObjects[a].dirtyStorage[e.key] = e.n]
             [] e.kind = "code" ->
                  [s EXCEPT !.StateObjects[a].code = e.code,
                            !.StateObjects[a].CodeHash = NewHash(e.code),
                            !.StateObjects[a].dirtyCode = TRUE]
             [] e.kind = "refund" ->
                  [s EXCEPT !.refund = e.n]
             [] e.kind = "addLog" ->
                  [s EXCEPT !.logs[e.key] = SubSeq(@, 1, Len(@) - 1),
                            !.logSize = @ - 1]
             [] e.kind = "addPreimage" ->
                  [s EXCEPT !.preimages[e.key] = ""]
             [] e.kind = "touch" ->
                  [s EXCEPT !.StateObjects[a].touched = e.flag]

\* journal.revert(state, snapshot): undoes the entries above snapshot, last
\* first, dropping each from the journal and from the dirties count
RECURSIVE revert(_, _)
revert(s, snapshot) ==
  LET n == Len(s.journal.entries)
      e == s.journal.entries[n]
      d == dirtiedAddress(e)
      u == undo(s, e)
  IN  IF n <= snapshot \/ s.panicked THEN s
      ELSE revert([u EXCEPT
                     !.journal.entries = SubSeq(@, 1, n - 1),
                     !.journal.dirties =
                        IF d \in Addrs THEN [@ EXCEPT ![d] = @ - 1] ELSE @],
                  snapshot)

\* self.db.journal.append(entry) in a stateObject method: the journal is that
\* of the StateDB the object points back to
dbJournalAppend(s, a, e) ==
  IF s.StateObjects[a].db = s.self
  THEN [s EXCEPT !.journal = append(@, e)]
  ELSE [s EXCEPT !.foreign = Append(@, [db |-> s.StateObjects[a].db, entry |-> e])]

\* the address of the ripeMD precompile, whose touch stays in journal.dirties
\* when the journal is reverted
ripemd == "B"

\* journal.dirty(addr): one more reference to addr in the owner's dirties
journalDirty(s, a) ==
  IF s.StateObjects[a].db = s.self
  THEN [s EXCEPT !.journal.dirties[a] = @ + 1]
  ELSE s

\* stateObject.touch: journals the touch, puts the ripeMD address in the dirty
\* cache explicitly, and sets the flag
touch(s, a) ==
  LET j == dbJournalAppend(s, a, [Entry("touch", a) EXCEPT
                                    !.flag = s.StateObjects[a].touched])
  IN  [(IF a = ripemd THEN journalDirty(j, a) ELSE j)
         EXCEPT !.StateObjects[a].touched = TRUE]

\* stateObject.SetBalance: journals the prior balance, then sets
soSetBalance(s, a, amount) ==
  setBalance(dbJournalAppend(s, a, [Entry("balance", a) EXCEPT
                                      !.n = s.StateObjects[a].Balance]),
             a, amount)

\* stateObject.AddBalance: a zero amount only touches an empty account
soAddBalance(s, a, amount) ==
  IF amount = 0
  THEN IF empty(s.StateObjects[a]) THEN touch(s, a) ELSE s
  ELSE soSetBalance(s, a, s.StateObjects[a].Balance + amount)

\* stateObject.SubBalance
soSubBalance(s, a, amount) ==
  IF amount = 0 THEN s
  ELSE soSetBalance(s, a, s.StateObjects[a].Balance - amount)

\* stateObject.SetNonce
soSetNonce(s, a, nonce) ==
  setNonce(dbJournalAppend(s, a, [Entry("nonce", a) EXCEPT
                                    !.n = s.StateObjects[a].Nonce]),
           a, nonce)

\* stateObject.SetCode
soSetCode(s, a, codeHash, code) ==
  setCode(dbJournalAppend(s, a, [Entry("code", a) EXCEPT
                                   !.code = s.StateObjects[a].code]),
          a, codeHash, code)

\* stateObject.SetState: reads the prior value through GetState, journals it,
\* then writes both slot caches
soSetState(s, a, key, value) ==
  LET r == soGetState(s, a, key)
  IN  setState(dbJournalAppend(r.s, a, [Entry("storage", a) EXCEPT
                                          !.key = key, !.n = r.value]),
               a, key, value)

\* ----------------------------------------------------------------- StateDB

\* setError that remembers the last error it is called with
setErrorLastWins(s, err) == [s EXCEPT !.dbErr = err]

\* StateDB.setError: remembers the first non-nil error it is called with
setError(s, err) == IF s.dbErr = NoErr THEN [s EXCEPT !.dbErr = err] ELSE s

\* Trie.TryGet on the account trie: the encoded account, or an error
TryGet(s, a) ==
  IF a \in s.faulty
  THEN [enc |-> <<>>, err |-> "TryGet(" \o a \o ")"]
  ELSE [enc |-> s.trie[a], err |-> NoErr]

\* StateDB.setStateObject
setStateObject(s, a, obj) == [s EXCEPT !.StateObjects[a] = obj]

\* getStateObject that drops the error of a failed trie read
getStateObjectDropsError(s, a) ==
  LET obj == s.StateObjects[a]
      r == TryGet(s, a)
      loaded == newStateObject(s.self, DecodeRLP(r.enc))
  IN  IF obj.exists
      THEN [s |-> s, obj |-> IF obj.deleted THEN NoObject ELSE obj]
      ELSE IF Len(r.enc) = 0
      THEN [s |-> s, obj |-> NoObject]
      ELSE [s |-> setStateObject(s, a, loaded), obj |-> loaded]

\* getStateObject that returns the cached object even when it is marked deleted
getStateObjectShowsDeleted(s, a) ==
  LET obj == s.StateObjects[a]
      r == TryGet(s, a)
      loaded == newStateObject(s.self, DecodeRLP(r.enc))
  IN  IF obj.exists
      THEN [s |-> s, obj |-> obj]
      ELSE IF Len(r.enc) = 0
      THEN [s |-> setError(s, r.err), obj |-> NoObject]
      ELSE [s |-> setStateObject(s, a, loaded), obj |-> loaded]

\* StateDB.getStateObject: the StateDB it leaves and the object it returns
getStateObject(s, a) ==
  LET obj == s.StateObjects[a]
      r == TryGet(s, a)
      loaded == newStateObject(s.self, DecodeRLP(r.enc))
  IN  IF obj.exists
      THEN [s |-> s, obj |-> IF obj.deleted THEN NoObject ELSE obj]
      ELSE IF Len(r.enc) = 0
      THEN [s |-> setError(s, r.err), obj |-> NoObject]
      ELSE [s |-> setStateObject(s, a, loaded), obj |-> loaded]

\* what `faulty` holds when the account trie's TryUpdate and TryDelete fail
\* for address a (an address alone stands for its TryGet failing)
Write(a) == "write " \o a

\* StateDB.updateStateObject: writes the object's encoding to the account
\* trie, or remembers the error of a TryUpdate that fails
updateStateObject(s, a) ==
  IF Write(a) \in s.faulty
  THEN setError(s, "TryUpdate(" \o a \o ")")
  ELSE [s EXCEPT !.trie[a] = EncodeRLP(s.StateObjects[a])]

\* StateDB.deleteStateObject: marks the object deleted and removes its trie
\* entry, or remembers the error of a TryDelete that fails
deleteStateObject(s, a) ==
  IF Write(a) \in s.faulty
  THEN setError([s EXCEPT !.StateObjects[a].deleted = TRUE], "TryDelete(" \o a \o ")")
  ELSE [s EXCEPT !.StateObjects[a].deleted = TRUE, !.trie[a] = <<>>]

\* clearJournalAndRefund that starts the revision ids again at 0
clearJournalAndRefundRestartsIds(s) ==
  [s EXCEPT !.journal = newJournal, !.validRevisions = <<>>, !.refund = 0,
            !.nextRevisionId = 0]

\* StateDB.clearJournalAndRefund
clearJournalAndRefund(s) ==
  [s EXCEPT !.journal = newJournal, !.validRevisions = <<>>, !.refund = 0]

\* New(root, db): the trie opened at root, empty maps and a fresh journal
\* (self stands for the new StateDB's address, foreign for what its objects
\* append to the journal of another StateDB)
New(self, root, faulty) ==
  [alive |-> TRUE, self |-> self, foreign |-> <<>>, panicked |-> FALSE,
   faulty |-> faulty, trie |-> root,
   StateObjects |-> [a \in Addrs |-> NoObject], stateObjectsDirty |-> {},
   dbErr |-> NoErr, refund |-> 0, thash |-> "t0", bhash |-> "t0", txIndex |-> 0,
   logs |-> [h \in TxHashes |-> <<>>], logSize |-> 0,
   preimages |-> [h \in Images |-> ""], journal |-> newJournal,
   validRevisions |-> <<>>, nextRevisionId |-> 0]

\* no StateDB
NoDB == [New(0, EmptyTrie, {}) EXCEPT !.alive = FALSE]

\* AddLog that leaves logSize as it was
AddLogNoCount(s, addr) ==
  LET j == append(s.journal, [Entry("addLog", addr) EXCEPT !.key = s.thash])
      log == [Address |-> addr, TxHash |-> s.thash, BlockHash |-> s.bhash,
              TxIndex |-> s.txIndex, Index |-> s.logSize]
  IN  [s EXCEPT !.journal = j, !.logs[s.thash] = Append(@, log)]

\* StateDB.AddLog
AddLog(s, addr) ==
  LET j == append(s.journal, [Entry("addLog", addr) EXCEPT !.key = s.thash])
      log == [Address |-> addr, TxHash |-> s.thash, BlockHash |-> s.bhash,
              TxIndex |-> s.txIndex, Index |-> s.logSize]
  IN  [s EXCEPT !.journal = j, !.logs[s.thash] = Append(@, log),
                !.logSize = @ + 1]

\* StateDB.GetLogs
GetLogs(s, hash) == s.logs[hash]

\* AddPreimage that stores and journals whether or not the hash is there
AddPreimageOverwrites(s, hash, preimage) ==
  [s EXCEPT
     !.journal = append(@, [Entry("addPreimage", "none") EXCEPT !.key = hash]),
     !.preimages[hash] = preimage]

\* StateDB.AddPreimage
AddPreimage(s, hash, preimage) ==
  IF s.preimages[hash] = ""
  THEN [s EXCEPT
          !.journal = append(@, [Entry("addPreimage", "none") EXCEPT !.key = hash]),
          !.preimages[hash] = preimage]
  ELSE s

\* AddRefund that journals a prior refund of zero whatever the refund was
AddRefundForgetsPrev(s, gas) ==
  [s EXCEPT !.journal = append(@, [Entry("refund", "none") EXCEPT !.n = 0]),
            !.refund = @ + gas]

\* StateDB.AddRefund
AddRefund(s, gas) ==
  [s EXCEPT !.journal = append(@, [Entry("refund", "none") EXCEPT !.n = s.refund]),
            !.refund = @ + gas]

\* StateDB.GetRefund
GetRefund(s) == s.refund

\* StateDB.Exist, Empty, GetBalance, GetNonce, GetCode, GetCodeHash,
\* HasSuicided: what each returns (what it leaves is getStateObject(s, a).s)
Exist(s, a) == getStateObject(s, a).obj.exists

Empty(s, a) == ~getStateObject(s, a).obj.exists \/ empty(getStateObject(s, a).obj)

GetBalance(s, a) ==
  IF getStateObject(s, a).obj.exists THEN getStateObject(s, a).obj.Balance ELSE 0

GetNonce(s, a) ==
  IF getStateObject(s, a).obj.exists THEN getStateObject(s, a).obj.Nonce ELSE 0

GetCode(s, a) ==
  IF getStateObject(s, a).obj.exists THEN getStateObject(s, a).obj.code ELSE ""

GetCodeHash(s, a) ==
  IF getStateObject(s, a).obj.exists THEN getStateObject(s, a).obj.CodeHash
  ELSE ZeroHash

HasSuicided(s, a) ==
  IF getStateObject(s, a).obj.exists THEN getStateObject(s, a).obj.suicided
  ELSE FALSE

\* StateDB.GetState: the StateDB it leaves and the value it returns
GetState(s, a, key) ==
  LET r == getStateObject(s, a)
  IN  IF r.obj.exists THEN soGetState(r.s, a, key)
      ELSE [s |-> r.s, value |-> 0]

\* StateDB.createObject: the StateDB it leaves (the new object is the one at
\* the address) and the object it replaced
createObject(s, a) ==
  LET r == getStateObject(s, a)
      prev == r.obj
      account == IF ~prev.exists /\ Len(badger[a]) > 0
                 THEN badger[a][1]
                 ELSE MkAccount(0, 0, EmptyStorage, emptyCode)
      e == IF prev.exists THEN [Entry("resetObject", a) EXCEPT !.obj = prev]
           ELSE Entry("createObject", a)
  IN  [s |-> setStateObject([r.s EXCEPT !.journal = append(@, e)], a,
                            newStateObject(s.self, account)),
       prev |-> prev]

\* StateDB.GetOrNewStateObject: the StateDB it leaves (the object returned is
\* the one at the address)
GetOrNewStateObject(s, a) ==
  LET r == getStateObject(s, a)
  IN  IF ~r.obj.exists \/ r.obj.deleted THEN createObject(r.s, a).s ELSE r.s

\* StateDB.AddBalance, SubBalance, SetBalance, SetNonce, SetCode, SetState
AddBalance(s, a, amount) == soAddBalance(GetOrNewStateObject(s, a), a, amount)

SubBalance(s, a, amount) == soSubBalance(GetOrNewStateObject(s, a), a, amount)

SetBalance(s, a, amount) == soSetBalance(GetOrNewStateObject(s, a), a, amount)

SetNonce(s, a, nonce) == soSetNonce(GetOrNewStateObject(s, a), a, nonce)

SetCode(s, a, code) == soSetCode(GetOrNewStateObject(s, a), a, NewHash(code), code)

SetState(s, a, key, value) == soSetState(GetOrNewStateObject(s, a), a, key, value)

\* Suicide that creates the object when none is visible, and marks it
SuicideOfMissing(s, a) ==
  LET r == GetOrNewStateObject(s, a)
      obj == r.StateObjects[a]
      e == [Entry("suicide", a) EXCEPT !.flag = obj.suicided, !.n = obj.Balance]
  IN  [s |-> [r EXCEPT !.journal = append(@, e),
                       !.StateObjects[a].suicided = TRUE,
                       !.StateObjects[a].Balance = 0],
       ok |-> TRUE]

\* StateDB.Suicide: the StateDB it leaves and what it returns
Suicide(s, a) ==
  LET r == getStateObject(s, a)
      e == [Entry("suicide", a) EXCEPT !.flag = r.obj.suicided,
                                       !.n = r.obj.Balance]
  IN  IF ~r.obj.exists THEN [s |-> r.s, ok |-> FALSE]
      ELSE [s |-> [r.s EXCEPT !.journal = append(@, e),
                              !.StateObjects[a].suicided = TRUE,
                              !.StateObjects[a].Balance = 0],
            ok |-> TRUE]

\* CreateAccount that does not carry the replaced object's balance over
CreateAccountDropsBalance(s, a) == createObject(s, a).s

\* StateDB.CreateAccount: a fresh object that keeps the replaced one's balance
CreateAccount(s, a) ==
  LET c == createObject(s, a)
  IN  IF c.prev.exists THEN setBalance(c.s, a, c.prev.Balance) ELSE c.s

\* Snapshot that records the revision but does not advance nextRevisionId
SnapshotSameId(s) ==
  [s |-> [s EXCEPT !.validRevisions =
                      Append(@, [id |-> s.nextRevisionId,
                                 journalIndex |-> Len(s.journal.entries)])],
   id |-> s.nextRevisionId]

\* StateDB.Snapshot: the StateDB it leaves and the id it returns
Snapshot(s) ==
  [s |-> [s EXCEPT !.nextRevisionId = @ + 1,
                   !.validRevisions =
                      Append(@, [id |-> s.nextRevisionId,
                                 journalIndex |-> Len(s.journal.entries)])],
   id |-> s.nextRevisionId]

\* sort.Search(n, f) with f(i) = validRevisions[i].id >= revid, over the
\* 0-based half-open range i..j
RECURSIVE Search(_, _, _, _)
Search(revs, revid, i, j) ==
  LET h == (i + j) \div 2
  IN  IF i >= j THEN i
      ELSE IF ~(revs[h + 1].id >= revid) THEN Search(revs, revid, h + 1, j)
      ELSE Search(revs, revid, i, h)

\* RevertToSnapshot without the journal replay
RevertToSnapshotNoReplay(s, revid) ==
  LET idx == Search(s.validRevisions, revid, 0, Len(s.validRevisions))
  IN  IF idx = Len(s.validRevisions) \/ s.validRevisions[idx + 1].id # revid
      THEN [s EXCEPT !.panicked = TRUE]
      ELSE [s EXCEPT !.validRevisions = SubSeq(s.validRevisions, 1, idx)]

\* RevertToSnapshot that keeps the revision it reverted to
RevertToSnapshotKeepsRevision(s, revid) ==
  LET idx == Search(s.validRevisions, revid, 0, Len(s.validRevisions))
  IN  IF idx = Len(s.validRevisions) \/ s.validRevisions[idx + 1].id # revid
      THEN [s EXCEPT !.panicked = TRUE]
      ELSE [revert(s, s.validRevisions[idx + 1].journalIndex) EXCEPT
              !.validRevisions = SubSeq(s.validRevisions, 1, idx + 1)]

\* RevertToSnapshot that, given an id that is not a valid revision, undoes
\* the whole journal instead of panicking
RevertToSnapshotLenient(s, revid) ==
  LET idx == Search(s.validRevisions, revid, 0, Len(s.validRevisions))
  IN  IF idx = Len(s.validRevisions) \/ s.validRevisions[idx + 1].id # revid
      THEN [revert(s, 0) EXCEPT !.validRevisions = <<>>]
      ELSE [revert(s, s.validRevisions[idx + 1].journalIndex) EXCEPT
              !.validRevisions = SubSeq(s.validRevisions, 1, idx)]

\* StateDB.RevertToSnapshot: panics on an id that is not a valid revision
RevertToSnapshot(s, revid) ==
  LET idx == Search(s.validRevisions, revid, 0, Len(s.validRevisions))
  IN  IF idx = Len(s.validRevisions) \/ s.validRevisions[idx + 1].id # revid
      THEN [s EXCEPT !.panicked = TRUE]
      ELSE [revert(s, s.validRevisions[idx + 1].journalIndex) EXCEPT
              !.validRevisions = SubSeq(s.validRevisions, 1, idx)]

\* Finalise's loop body that deletes empty objects only, not suicided ones
FinaliseOneKeepsSuicided(s, a, deleteEmptyObjects) ==
  LET obj == s.StateObjects[a]
      t == IF deleteEmptyObjects /\ empty(obj)
           THEN deleteStateObject(s, a)
           ELSE updateStateObject(setStateObject(s, a, updateRoot(obj)), a)
  IN  IF ~obj.exists THEN s
      ELSE [t EXCEPT !.stateObjectsDirty = @ \cup {a}]

\* Finalise's loop body that never deletes an empty object
FinaliseOneKeepsEmpty(s, a, deleteEmptyObjects) ==
  LET obj == s.StateObjects[a]
      t == IF obj.suicided
           THEN deleteStateObject(s, a)
           ELSE updateStateObject(setStateObject(s, a, updateRoot(obj)), a)
  IN  IF ~obj.exists THEN s
      ELSE [t EXCEPT !.stateObjectsDirty = @ \cup {a}]

\* the body of Finalise's loop, except that the address is not marked dirty
FinaliseOneNotMarked(s, a, deleteEmptyObjects) ==
  LET obj == s.StateObjects[a]
      t == IF obj.suicided \/ (deleteEmptyObjects /\ empty(obj))
           THEN deleteStateObject(s, a)
           ELSE updateStateObject(setStateObject(s, a, updateRoot(obj)), a)
  IN  IF ~obj.exists THEN s
      ELSE t

\* the body of Finalise's loop for one address of journal.dirties
FinaliseOne(s, a, deleteEmptyObjects) ==
  LET obj == s.StateObjects[a]
      t == IF obj.suicided \/ (deleteEmptyObjects /\ empty(obj))
           THEN deleteStateObject(s, a)
           ELSE updateStateObject(setStateObject(s, a, updateRoot(obj)), a)
  IN  IF ~obj.exists THEN s
      ELSE [t EXCEPT !.stateObjectsDirty = @ \cup {a}]

\* a loop over a set of addresses (a Go map's keys), in some order
RECURSIVE ForEach(_, _, _, _)
ForEach(Body(_, _, _), s, as, flag) ==
  LET a == CHOOSE x \in as : TRUE
  IN  IF as = {} THEN s
      ELSE ForEach(Body, Body(s, a, flag), as \ {a}, flag)

\* StateDB.Finalise
Finalise(s, deleteEmptyObjects) ==
  clearJournalAndRefund(
    ForEach(FinaliseOne, s, DirtyAddrs(s.journal), deleteEmptyObjects))

\* StateDB.IntermediateRoot: the StateDB it leaves and the root it returns
IntermediateRoot(s, deleteEmptyObjects) ==
  [s |-> Finalise(s, deleteEmptyObjects),
   root |-> Finalise(s, deleteEmptyObjects).trie]

\* StateDB.Prepare
Prepare(s, thash, bhash, ti) ==
  [s EXCEPT !.thash = thash, !.bhash = bhash, !.txIndex = ti]

\* the body of DeleteSuicides' loop for one address of stateObjectsDirty
DeleteSuicidesOne(s, a, unused) ==
  IF ~s.StateObjects[a].exists THEN [s EXCEPT !.panicked = TRUE]
  ELSE [s EXCEPT !.StateObjects[a].deleted = @ \/ s.StateObjects[a].suicided,
                 !.stateObjectsDirty = @ \ {a}]

\* StateDB.DeleteSuicides
DeleteSuicides(s) ==
  ForEach(DeleteSuicidesOne, clearJournalAndRefund(s), s.stateObjectsDirty, FALSE)

\* Commit's loop body that writes the account without committing its storage
CommitOneSkipsStorage(s, a, deleteEmptyObjects) ==
  LET obj == s.StateObjects[a]
      isDirty == a \in s.stateObjectsDirty
      t == IF obj.suicided \/ (isDirty /\ deleteEmptyObjects /\ empty(obj))
           THEN deleteStateObject(s, a)
           ELSE IF isDirty
           THEN updateStateObject(
                  setStateObject(s, a, [obj EXCEPT !.dirtyCode = FALSE]), a)
           ELSE s
  IN  [t EXCEPT !.stateObjectsDirty = @ \ {a}]

\* the body of Commit's loop for one address of StateObjects
CommitOne(s, a, deleteEmptyObjects) ==
  LET obj == s.StateObjects[a]
      isDirty == a \in s.stateObjectsDirty
      t == IF obj.suicided \/ (isDirty /\ deleteEmptyObjects /\ empty(obj))
           THEN deleteStateObject(s, a)
           ELSE IF isDirty
           THEN updateStateObject(
                  setStateObject(s, a, [CommitTrie(obj) EXCEPT !.dirtyCode = FALSE]), a)
           ELSE s
  IN  [t EXCEPT !.stateObjectsDirty = @ \ {a}]

\* Commit that does not fold journal.dirties into stateObjectsDirty
CommitIgnoresJournal(s, deleteEmptyObjects) ==
  LET done == ForEach(CommitOne, s,
                      {a \in Addrs : s.StateObjects[a].exists}, deleteEmptyObjects)
  IN  [s |-> clearJournalAndRefund(done), root |-> done.trie, err |-> NoErr]

\* the orders in which a range over a map keyed by address may visit it
AddrOrders ==
  {o \in [1..Cardinality(Addrs) -> Addrs] : \A a \in Addrs : \E k \in DOMAIN o : o[k] = a}

\* whether Commit's loop reaches CommitTrie for the object at a
ReachesCommitTrie(s, a, deleteEmptyObjects) ==
  /\ a \in s.stateObjectsDirty
  /\ ~s.StateObjects[a].suicided
  /\ ~(deleteEmptyObjects /\ empty(s.StateObjects[a]))

\* a failed CommitTrie after which the address is no longer marked dirty
CommitTrieFailedUnmarked(s, a) ==
  [setStateObject(s, a, [updateTrie(s.StateObjects[a]) EXCEPT !.dirtyCode = FALSE])
     EXCEPT !.stateObjectsDirty = @ \ {a}]

\* the object at a when its CommitTrie has failed: the code blob is written,
\* the pending storage is in the object's trie, account.Root is as it was
CommitTrieFailed(s, a) ==
  setStateObject(s, a, [updateTrie(s.StateObjects[a]) EXCEPT !.dirtyCode = FALSE])

\* Commit's loop over StateObjects in the order given; bad: the addresses
\* whose storage trie the database fails to commit
RECURSIVE CommitLoop(_, _, _, _)
CommitLoop(s, order, deleteEmptyObjects, bad) ==
  IF order = <<>> THEN [s |-> s, err |-> NoErr]
  ELSE IF ~s.StateObjects[Head(order)].exists
  THEN CommitLoop(s, Tail(order), deleteEmptyObjects, bad)
  ELSE IF Head(order) \in bad /\ ReachesCommitTrie(s, Head(order), deleteEmptyObjects)
  THEN [s |-> CommitTrieFailed(s, Head(order)), err |-> "CommitTrie"]
  ELSE CommitLoop(CommitOne(s, Head(order), deleteEmptyObjects), Tail(order),
                  deleteEmptyObjects, bad)

\* Commit that clears the journal and the refund only when it returns no error
CommitInNoDefer(s, deleteEmptyObjects, order, bad) ==
  LET folded == [s EXCEPT !.stateObjectsDirty = @ \cup DirtyAddrs(s.journal)]
      done == CommitLoop(folded, order, deleteEmptyObjects, bad)
  IN  [s |-> IF done.err = NoErr THEN clearJournalAndRefund(done.s) ELSE done.s,
       root |-> IF done.err = NoErr THEN done.s.trie ELSE ZeroHash,
       err |-> done.err]

\* StateDB.Commit with its environment: the StateDB it leaves, and the root
\* and the error it returns (the deferred clearJournalAndRefund runs on every
\* return; the account trie is committed only when the loop completes)
CommitIn(s, deleteEmptyObjects, order, bad) ==
  LET folded == [s EXCEPT !.stateObjectsDirty = @ \cup DirtyAddrs(s.journal)]
      done == CommitLoop(folded, order, deleteEmptyObjects, bad)
  IN  [s |-> clearJournalAndRefund(done.s),
       root |-> IF done.err = NoErr THEN done.s.trie ELSE ZeroHash,
       err |-> done.err]

\* StateDB.Commit on a database that commits every storage trie: the StateDB
\* it leaves, and the root and the error it returns
Commit(s, deleteEmptyObjects) ==
  CommitIn(s, deleteEmptyObjects, CHOOSE o \in AddrOrders : TRUE, {})

\* Copy whose copied objects point back to the source
CopyWrongOwner(s, self) ==
  LET dirty == DirtyAddrs(s.journal) \cup s.stateObjectsDirty
  IN  [src |-> IF \E a \in dirty : ~s.StateObjects[a].exists
               THEN [s EXCEPT !.panicked = TRUE] ELSE s,
       copy |-> [New(self, s.trie, s.faulty) EXCEPT
                   !.StateObjects = [a \in Addrs |->
                                       IF a \in dirty THEN deepCopy(s.StateObjects[a], s.self)
                                       ELSE NoObject],
                   !.stateObjectsDirty = dirty,
                   !.refund = s.refund,
                   !.logs = s.logs,
                   !.logSize = s.logSize,
                   !.preimages = s.preimages]]

\* Copy that hands the source's revisions and journal to the copy
CopyKeepsRevisions(s, self) ==
  LET dirty == DirtyAddrs(s.journal) \cup s.stateObjectsDirty
  IN  [src |-> IF \E a \in dirty : ~s.StateObjects[a].exists
               THEN [s EXCEPT !.panicked = TRUE] ELSE s,
       copy |-> [New(self, s.trie, s.faulty) EXCEPT
                   !.StateObjects = [a \in Addrs |->
                                       IF a \in dirty THEN deepCopy(s.StateObjects[a], self)
                                       ELSE NoObject],
                   !.stateObjectsDirty = dirty,
                   !.refund = s.refund,
                   !.logs = s.logs,
                   !.logSize = s.logSize,
                   !.preimages = s.preimages,
                   !.journal = s.journal,
                   !.validRevisions = s.validRevisions,
                   !.nextRevisionId = s.nextRevisionId]]

\* StateDB.Copy: the source as Copy leaves it (Copy dereferences nil when a
\* dirty address has no object) and the copy it returns
Copy(s, self) ==
  LET dirty == DirtyAddrs(s.journal) \cup s.stateObjectsDirty
  IN  [src |-> IF \E a \in dirty : ~s.StateObjects[a].exists
               THEN [s EXCEPT !.panicked = TRUE] ELSE s,
       copy |-> [New(self, s.trie, s.faulty) EXCEPT
                   !.StateObjects = [a \in Addrs |->
                                       IF a \in dirty THEN deepCopy(s.StateObjects[a], self)
                                       ELSE NoObject],
                   !.stateObjectsDirty = dirty,
                   !.refund = s.refund,
                   !.logs = s.logs,
                   !.logSize = s.logSize,
                   !.preimages = s.preimages]]

\* Reset, except that the logs of the state before outlive it
ResetKeepsLogs(s, root, opens) ==
  IF ~opens THEN s
  ELSE [clearJournalAndRefund(New(s.self, root, s.faulty)) EXCEPT
          !.dbErr = s.dbErr, !.nextRevisionId = s.nextRevisionId,
          !.logs = s.logs]

\* Reset, except that the cached objects of the state before outlive it
ResetKeepsObjects(s, root, opens) ==
  IF ~opens THEN s
  ELSE [clearJournalAndRefund(New(s.self, root, s.faulty)) EXCEPT
          !.dbErr = s.dbErr, !.nextRevisionId = s.nextRevisionId,
          !.StateObjects = s.StateObjects,
          !.stateObjectsDirty = s.stateObjectsDirty]

\* StateDB.Reset: on a trie that opens, everything but dbErr and
\* nextRevisionId starts afresh; on one that does not, nothing changes
Reset(s, root, opens) ==
  IF ~opens THEN s
  ELSE [clearJournalAndRefund(New(s.self, root, s.faulty)) EXCEPT
          !.dbErr = s.dbErr, !.nextRevisionId = s.nextRevisionId]

\* ------------------------------------------------------------- behaviours

Amounts == 0..MaxBal
RevIds == 0..(MaxRevisions - 1)

\* account tries a StateDB may be opened on: each was committed by a StateDB
InitAccounts ==
  {<<>>,
   <<0, 0, EmptyStorage, emptyCode>>,
   <<0, 1, EmptyStorage, emptyCode>>,
   <<1, 0, [k \in Keys |-> TrimLeftZeroes(1)], NewHash("c1")>>}

NoHist == [op |-> "New", prev |-> "New", i |-> 1, a |-> "none", key |-> NoKey,
           n |-> 0, ok |-> TRUE, err |-> NoErr, undone |-> 0, moved |-> FALSE,
           copy |-> 0, copiedAt |-> 0, image |-> ""]

\* (prev: the operation before this one; copy: the instance Copy made, if
\* any, and copiedAt: the source's nextRevisionId when it was made)
Hist(op, i, a) ==
  [NoHist EXCEPT !.op = op, !.prev = hist.op, !.i = i, !.a = a,
                 !.copy = hist.copy, !.copiedAt = hist.copiedAt]

NoSnaps == [id \in RevIds |-> NoDB]

\* the snapshots still valid in s
Prune(s, sn) ==
  [id \in RevIds |->
     IF \E k \in 1..Len(s.validRevisions) : s.validRevisions[k].id = id
     THEN sn[id] ELSE NoDB]

\* the values the model's bounds admit
InBounds(s) ==
  /\ \A a \in Addrs : s.StateObjects[a].Balance \in 0..MaxBal
  /\ Len(s.journal.entries) <= MaxJournal
  /\ s.refund <= MaxBal
  /\ s.logSize <= MaxBal

Ready(i) == sdb[i].alive /\ ~sdb[i].panicked /\ budget > 0

\* the journal entries the objects of s appended to the journal of StateDB k
RECURSIVE Deliver(_, _, _)
Deliver(j, foreign, k) ==
  IF foreign = <<>> THEN j
  ELSE Deliver(IF Head(foreign).db = k THEN append(j, Head(foreign).entry) ELSE j,
               Tail(foreign), k)

\* instance i goes from sdb[i] to s, by the operation h describes
Step(i, s, h) ==
  /\ Ready(i)
  /\ InBounds(s)
  /\ sdb' = [k \in Insts |->
               IF k = i THEN [s EXCEPT !.foreign = <<>>]
               ELSE [sdb[k] EXCEPT !.journal = Deliver(@, s.foreign, k)]]
  /\ snaps' = [snaps EXCEPT ![i] = Prune(s, @)]
  /\ hist' = h
  /\ budget' = budget - 1
  /\ UNCHANGED badger

DoAddBalance(i, a, amount) ==
  /\ Ready(i)
  /\ Step(i, AddBalance(sdb[i], a, amount), [Hist("AddBalance", i, a) EXCEPT !.n = amount])

DoSubBalance(i, a, amount) ==
  /\ amount <= GetBalance(sdb[i], a)
  /\ Step(i, SubBalance(sdb[i], a, amount), [Hist("SubBalance", i, a) EXCEPT !.n = amount])

DoSetBalance(i, a, amount) ==
  /\ Ready(i)
  /\ Step(i, SetBalance(sdb[i], a, amount), [Hist("SetBalance", i, a) EXCEPT !.n = amount])

DoSetNonce(i, a, nonce) ==
  /\ Ready(i)
  /\ Step(i, SetNonce(sdb[i], a, nonce), [Hist("SetNonce", i, a) EXCEPT !.n = nonce])

DoSetCode(i, a, code) ==
  /\ Ready(i)
  /\ Step(i, SetCode(sdb[i], a, code), Hist("SetCode", i, a))

DoSetState(i, a, key, value) ==
  /\ Ready(i)
  /\ Step(i, SetState(sdb[i], a, key, value),
       [Hist("SetState", i, a) EXCEPT !.key = key, !.n = value])

DoSuicide(i, a) ==
  /\ Ready(i)
  /\ Step(i, Suicide(sdb[i], a).s, [Hist("Suicide", i, a) EXCEPT !.ok = Suicide(sdb[i], a).ok])

DoCreateAccount(i, a) ==
  /\ Ready(i)
  /\ Step(i, CreateAccount(sdb[i], a), Hist("CreateAccount", i, a))

DoAddRefund(i, gas) ==
  /\ Ready(i)
  /\ Step(i, AddRefund(sdb[i], gas), [Hist("AddRefund", i, "none") EXCEPT !.n = gas])

DoAddLog(i, a) ==
  /\ Ready(i)
  /\ Step(i, AddLog(sdb[i], a), Hist("AddLog", i, a))

DoAddPreimage(i, hash, preimage) ==
  /\ Ready(i)
  /\ Step(i, AddPreimage(sdb[i], hash, preimage),
       [Hist("AddPreimage", i, "none") EXCEPT !.key = hash, !.image = preimage])

DoPrepare(i, thash, ti) ==
  /\ Ready(i)
  /\ Step(i, Prepare(sdb[i], thash, thash, ti),
       [Hist("Prepare", i, "none") EXCEPT !.key = thash, !.n = ti])

\* a getter on address a: Exist, Empty, GetBalance, GetNonce, GetCode,
\* GetCodeHash, HasSuicided all go through getStateObject
DoRead(i, a) ==
  /\ Ready(i)
  /\ Step(i, getStateObject(sdb[i], a).s,
       [Hist("Read", i, a) EXCEPT !.ok = Exist(sdb[i], a), !.n = GetBalance(sdb[i], a)])

DoGetState(i, a, key) ==
  /\ Ready(i)
  /\ Step(i, GetState(sdb[i], a, key).s,
       [Hist("GetState", i, a) EXCEPT !.key = key, !.n = GetState(sdb[i], a, key).value])

DoSnapshot(i) ==
  /\ sdb[i].nextRevisionId < MaxRevisions
  /\ Ready(i)
  /\ sdb' = [sdb EXCEPT ![i] = Snapshot(sdb[i]).s]
  /\ snaps' = [snaps EXCEPT ![i] = [Prune(Snapshot(sdb[i]).s, @) EXCEPT
                                      ![Snapshot(sdb[i]).id] = Snapshot(sdb[i]).s]]
  /\ hist' = [Hist("Snapshot", i, "none") EXCEPT !.n = Snapshot(sdb[i]).id]
  /\ budget' = budget - 1
  /\ UNCHANGED badger

\* (undone: the journal entries the revert undid; moved: whether it changed
\* the root IntermediateRoot(true) would return)
DoRevertToSnapshot(i, revid) ==
  /\ Ready(i)
  /\ Step(i, RevertToSnapshot(sdb[i], revid),
       [Hist("RevertToSnapshot", i, "none") EXCEPT
          !.n = revid,
          !.ok = ~RevertToSnapshot(sdb[i], revid).panicked,
          !.undone = Len(sdb[i].journal.entries)
                     - Len(RevertToSnapshot(sdb[i], revid).journal.entries),
          !.moved = IntermediateRoot(sdb[i], TRUE).root
                    # IntermediateRoot(RevertToSnapshot(sdb[i], revid), TRUE).root])

DoFinalise(i, deleteEmptyObjects) ==
  /\ Ready(i)
  /\ Step(i, Finalise(sdb[i], deleteEmptyObjects),
       [Hist("Finalise", i, "none") EXCEPT !.ok = deleteEmptyObjects])

DoIntermediateRoot(i, deleteEmptyObjects) ==
  /\ Ready(i)
  /\ Step(i, IntermediateRoot(sdb[i], deleteEmptyObjects).s,
       [Hist("IntermediateRoot", i, "none") EXCEPT !.ok = deleteEmptyObjects])

DoCommit(i, deleteEmptyObjects) ==
  /\ Ready(i)
  /\ Step(i, Commit(sdb[i], deleteEmptyObjects).s,
       [Hist("Commit", i, "none") EXCEPT !.ok = deleteEmptyObjects,
                                         !.err = Commit(sdb[i], deleteEmptyObjects).err])

DoDeleteSuicides(i) ==
  /\ Ready(i)
  /\ Step(i, DeleteSuicides(sdb[i]), Hist("DeleteSuicides", i, "none"))

\* c = s.Copy(): instance c comes to be
DoCopy(i, c) ==
  /\ Ready(i)
  /\ ~sdb[c].alive
  /\ sdb' = [sdb EXCEPT ![i] = Copy(sdb[i], c).src, ![c] = Copy(sdb[i], c).copy]
  /\ hist' = [Hist("Copy", i, "none") EXCEPT
                !.n = c, !.ok = ~Copy(sdb[i], c).src.panicked,
                !.copy = c, !.copiedAt = sdb[i].nextRevisionId]
  /\ budget' = budget - 1
  /\ UNCHANGED <<snaps, badger>>

\* the roots Reset is called with: the empty trie, or the trie of sdb[i]
ResetRoot(i, which) == IF which = "empty" THEN EmptyTrie ELSE sdb[i].trie

\* err = s.Reset(root); opens: whether the database opens a trie at root
DoReset(i, which, opens) ==
  /\ Ready(i)
  /\ sdb' = [sdb EXCEPT ![i] = Reset(sdb[i], ResetRoot(i, which), opens)]
  /\ snaps' = [snaps EXCEPT ![i] = Prune(Reset(sdb[i], ResetRoot(i, which), opens), @)]
  /\ hist' = [Hist("Reset", i, "none") EXCEPT
                !.key = which, !.ok = opens,
                !.err = IF opens THEN NoErr ELSE "OpenTrie"]
  /\ budget' = budget - 1
  /\ UNCHANGED badger

\* c, _ = New(root, db) on the root instance i was just reset to
DoNew(i, c) ==
  /\ Ready(i)
  /\ ~sdb[c].alive
  /\ hist.op = "Reset" /\ hist.ok /\ hist.i = i
  /\ sdb' = [sdb EXCEPT ![c] = New(c, sdb[i].trie, sdb[i].faulty)]
  /\ hist' = [Hist("NewOnRoot", c, "none") EXCEPT !.copy = c]
  /\ budget' = budget - 1
  /\ UNCHANGED <<snaps, badger>>

\* instance i is the only StateDB there is
Alone(i) == \A k \in Insts \ {i} : ~sdb[k].alive

\* the same call Op made on every instance
Both(Op(_), h) ==
  /\ \A k \in Insts : Ready(k) /\ InBounds(Op(sdb[k]))
  /\ sdb' = [k \in Insts |-> Op(sdb[k])]
  /\ hist' = h
  /\ budget' = budget - 1
  /\ UNCHANGED <<snaps, badger>>

\* the oldest snapshot id of s still valid; an id never issued when none is
OldestRevision(s) ==
  IF s.validRevisions = <<>> THEN s.nextRevisionId ELSE s.validRevisions[1].id

\* root, err = s.Commit(deleteEmptyObjects) on a database that fails to commit
\* the storage trie of address a, the map being visited in the order given
DoCommitFailing(i, deleteEmptyObjects, order, a) ==
  /\ Ready(i)
  /\ Step(i, CommitIn(sdb[i], deleteEmptyObjects, order, {a}).s,
       [Hist("Commit", i, a) EXCEPT
          !.ok = deleteEmptyObjects,
          !.err = CommitIn(sdb[i], deleteEmptyObjects, order, {a}).err])

TypeOK ==
  /\ budget \in Nat
  /\ \A i \in Insts : sdb[i].alive => InBounds(sdb[i])

\* one StateDB opened on a trie that holds A or not; B is an address whose
\* trie reads fail
Init ==
  /\ \E acc \in {<<>>, <<0, 0, EmptyStorage, emptyCode>>,
                  <<1, 1, [k \in Keys |-> TrimLeftZeroes(1)], NewHash("c1")>>} :
        sdb = [i \in Insts |->
                 IF i = 1 THEN New(1, [EmptyTrie EXCEPT !["A"] = acc], {"B"})
                 ELSE NoDB]
  /\ badger \in {[a \in Addrs |-> <<>>],
                 [a \in Addrs |-> <<MkAccount(0, 1, EmptyStorage, emptyCode)>>]}
  /\ hist = NoHist
  /\ snaps = [i \in Insts |-> NoSnaps]
  /\ budget = MaxOps

Mutate(i, a) ==
  \/ \E amount \in {0, 1} : DoAddBalance(i, a, amount)
  \/ DoSubBalance(i, a, 1)
  \/ DoSetBalance(i, a, 0)
  \/ DoSetNonce(i, a, 1)
  \/ DoSetCode(i, a, "c1")
  \/ \E value \in Vals : DoSetState(i, a, "k1", value)
  \/ DoSuicide(i, a)
  \/ DoCreateAccount(i, a)

Next ==
  \/ Mutate(1, "A")
  \/ \E a \in Addrs : DoRead(1, a)
  \/ DoAddRefund(1, 1)
  \/ DoSnapshot(1)
  \/ \E revid \in RevIds : DoRevertToSnapshot(1, revid)
  \/ \E d \in BOOLEAN : DoFinalise(1, d)
  \/ \E d \in BOOLEAN : DoCommit(1, d)
  \/ DoDeleteSuicides(1)

Spec == Init /\ [][Next]_vars

\* one transaction: every kind of mutation on one address, with snapshots and
\* reverts, on a StateDB opened on a trie that holds the address or not
InitSnap ==
  /\ \E acc \in {<<>>, <<1, 1, [k \in Keys |-> TrimLeftZeroes(1)], NewHash("c1")>>} :
        sdb = [i \in Insts |->
                 IF i = 1 THEN New(1, [EmptyTrie EXCEPT !["A"] = acc], {})
                 ELSE NoDB]
  /\ badger = [a \in Addrs |-> <<>>]
  /\ hist = NoHist
  /\ snaps = [i \in Insts |-> NoSnaps]
  /\ budget = MaxSnapOps

NextSnap ==
  \/ DoAddBalance(1, "A", 1)
  \/ DoSubBalance(1, "A", 1)
  \/ DoSetBalance(1, "A", 0)
  \/ DoSetNonce(1, "A", 0)
  \/ DoSetCode(1, "A", "")
  \/ DoSetState(1, "A", "k1", 0)
  \/ DoSuicide(1, "A")
  \/ DoCreateAccount(1, "A")
  \/ DoAddRefund(1, 1)
  \/ DoAddLog(1, "A")
  \/ DoAddPreimage(1, "p1", "p1")
  \/ DoSnapshot(1)
  \/ \E revid \in RevIds : DoRevertToSnapshot(1, revid)

SpecSnap == InitSnap /\ [][NextSnap]_vars

\* several transactions on one address: a StateDB opened on the empty trie,
\* balance changes and touches, transaction and block boundaries, snapshots
InitTxns ==
  /\ sdb = [i \in Insts |-> IF i = 1 THEN New(1, EmptyTrie, {}) ELSE NoDB]
  /\ badger = [a \in Addrs |-> <<>>]
  /\ hist = NoHist
  /\ snaps = [i \in Insts |-> NoSnaps]
  /\ budget = MaxTxnOps

NextTxns ==
  \/ \E amount \in {0, 1} : DoAddBalance(1, "A", amount)
  \/ DoRead(1, "A")
  \/ DoSnapshot(1)
  \/ DoRevertToSnapshot(1, 0)
  \/ DoSuicide(1, "A")
  \/ \E d \in BOOLEAN : DoFinalise(1, d)
  \/ \E d \in BOOLEAN : DoCommit(1, d)
  \/ DoDeleteSuicides(1)

SpecTxns == InitTxns /\ [][NextTxns]_vars

\* two StateDBs opened on the same (empty) root, each making balance writes
\* and touches on one address and crossing transaction and block boundaries
InitPair ==
  /\ sdb = [i \in Insts |-> New(i, EmptyTrie, {})]
  /\ badger = [a \in Addrs |-> <<>>]
  /\ hist = NoHist
  /\ snaps = [i \in Insts |-> NoSnaps]
  /\ budget = MaxPairOps

NextPair ==
  \E i \in Insts :
    \/ \E amount \in Amounts : DoAddBalance(i, "A", amount)
    \/ DoSubBalance(i, "A", 1)
    \/ DoSetBalance(i, "A", 2)
    \/ \E d \in BOOLEAN : DoFinalise(i, d)
    \/ DoCommit(i, FALSE)

SpecPair == InitPair /\ [][NextPair]_vars

\* a StateDB and the copy made of it at some point, both in use afterwards
InitCopy ==
  /\ sdb = [i \in Insts |->
              IF i = 1
              THEN New(1, [EmptyTrie EXCEPT !["A"] =
                             <<1, 0, EmptyStorage, emptyCode>>], {})
              ELSE NoDB]
  /\ badger = [a \in Addrs |-> <<>>]
  /\ hist = NoHist
  /\ snaps = [i \in Insts |-> NoSnaps]
  /\ budget = MaxCopyOps

NextCopy ==
  \/ DoCopy(1, 2)
  \/ \E i \in Insts :
       \/ DoAddBalance(i, "A", 1)
       \/ DoSetState(i, "A", "k1", 1)
       \/ DoSuicide(i, "A")
       \/ DoAddRefund(i, 1)
       \/ DoSnapshot(i)
       \/ DoRevertToSnapshot(i, 0)
       \/ DoFinalise(i, TRUE)
       \/ DoCommit(i, FALSE)

SpecCopy == InitCopy /\ [][NextCopy]_vars

\* ------------------------------------------------------------------ claims

\* a StateDB in use that is Reset, to the empty root or to the root it is on,
\* and used again; B is an address whose trie reads fail
InitReset ==
  /\ sdb = [i \in Insts |->
              IF i = 1
              THEN New(1, [EmptyTrie EXCEPT !["A"] =
                             <<0, 1, EmptyStorage, emptyCode>>], {"B"})
              ELSE NoDB]
  /\ badger = [a \in Addrs |-> <<>>]
  /\ hist = NoHist
  /\ snaps = [i \in Insts |-> NoSnaps]
  /\ budget = MaxResetOps

NextReset ==
  \/ DoAddBalance(1, "A", 1)
  \/ DoSetState(1, "A", "k1", 1)
  \/ DoSuicide(1, "A")
  \/ DoRead(1, "B")
  \/ DoAddRefund(1, 1)
  \/ DoPrepare(1, "t1", 1)
  \/ DoAddLog(1, "A")
  \/ DoAddPreimage(1, "p1", "p1")
  \/ DoSnapshot(1)
  \/ DoRevertToSnapshot(1, 0)
  \/ DoCommit(1, TRUE)
  \/ \E which \in {"empty", "current"}, opens \in BOOLEAN : DoReset(1, which, opens)

SpecReset == InitReset /\ [][NextReset]_vars

\* a StateDB with a history that is Reset, and a StateDB newly opened on the
\* same root: from then on the same calls are made on both
InitFresh ==
  /\ sdb = [i \in Insts |->
              IF i = 1
              THEN New(1, [EmptyTrie EXCEPT !["A"] =
                             <<0, 1, EmptyStorage, emptyCode>>], {"B"})
              ELSE NoDB]
  /\ badger = [a \in Addrs |-> <<>>]
  /\ hist = NoHist
  /\ snaps = [i \in Insts |-> NoSnaps]
  /\ budget = MaxFreshOps

NextFresh ==
  \/ Alone(1) /\ DoAddBalance(1, "A", 1)
  \/ Alone(1) /\ DoSuicide(1, "A")
  \/ Alone(1) /\ DoRead(1, "B")
  \/ Alone(1) /\ DoSnapshot(1)
  \/ Alone(1) /\ DoCommit(1, TRUE)
  \/ \E which \in {"empty", "current"} : Alone(1) /\ DoReset(1, which, TRUE)
  \/ DoNew(1, 2)
  \/ Both(LAMBDA s : AddBalance(s, "A", 1), Hist("AddBalance", 0, "A"))
  \/ Both(LAMBDA s : SetState(s, "A", "k1", 1), Hist("SetState", 0, "A"))
  \/ Both(LAMBDA s : Suicide(s, "A").s, Hist("Suicide", 0, "A"))
  \/ Both(LAMBDA s : Snapshot(s).s, Hist("Snapshot", 0, "none"))
  \/ Both(LAMBDA s : RevertToSnapshot(s, OldestRevision(s)),
          Hist("RevertToSnapshot", 0, "none"))
  \/ \E d \in BOOLEAN : Both(LAMBDA s : Finalise(s, d), Hist("Finalise", 0, "none"))
  \/ \E d \in BOOLEAN : Both(LAMBDA s : Commit(s, d).s,
                              [Hist("Commit", 0, "none") EXCEPT !.ok = d])

SpecFresh == InitFresh /\ [][NextFresh]_vars

\* the state a transaction starts in after one that only touched A: A was
\* created empty, deleted by Finalise(true), and a snapshot was taken
AfterTouch ==
  Snapshot(Finalise(AddBalance(New(1, EmptyTrie, {"B"}), "A", 0), TRUE)).s

\* every operation of the API but Commit and Reset, on a StateDB newly opened
\* (on a trie with A or without) or at the start of a later transaction
InitTotal ==
  /\ badger = [a \in Addrs |-> <<>>]
  /\ \E s \in {New(1, EmptyTrie, {"B"}),
               New(1, [EmptyTrie EXCEPT !["A"] =
                         <<1, 1, [k \in Keys |-> TrimLeftZeroes(1)], NewHash("c1")>>],
                   {"B"}),
               Snapshot(New(1, EmptyTrie, {})).s,
               AfterTouch} :
        /\ sdb = [i \in Insts |-> IF i = 1 THEN s ELSE NoDB]
        /\ snaps = [i \in Insts |->
                      IF i = 1 /\ s.validRevisions # <<>>
                      THEN [NoSnaps EXCEPT ![0] = s] ELSE NoSnaps]
  /\ hist = NoHist
  /\ budget = MaxTotalOps

NextTotal ==
  \/ \E amount \in {0, 1} : DoAddBalance(1, "A", amount)
  \/ DoAddBalance(1, ripemd, 0)
  \/ DoSubBalance(1, "A", 1)
  \/ DoSetBalance(1, "A", 0)
  \/ DoSetNonce(1, "A", 1)
  \/ DoSetCode(1, "A", "c1")
  \/ DoSetState(1, "A", "k1", 1)
  \/ DoSuicide(1, "A")
  \/ DoCreateAccount(1, "A")
  \/ \E a \in Addrs : DoRead(1, a)
  \/ DoGetState(1, "A", "k1")
  \/ DoAddRefund(1, 1)
  \/ DoAddLog(1, "A")
  \/ DoAddPreimage(1, "p1", "p1")
  \/ DoPrepare(1, "t1", 1)
  \/ DoSnapshot(1)
  \/ \E revid \in RevIds : DoRevertToSnapshot(1, revid)
  \/ \E d \in BOOLEAN : DoFinalise(1, d)
  \/ \E d \in BOOLEAN : DoIntermediateRoot(1, d)
  \/ DoDeleteSuicides(1)
  \/ DoCopy(1, 2)

SpecTotal == InitTotal /\ [][NextTotal]_vars

\* preimages recorded for one hash, two different images, between snapshots
\* and reverts
InitImage ==
  /\ sdb = [i \in Insts |-> IF i = 1 THEN New(1, EmptyTrie, {}) ELSE NoDB]
  /\ badger = [a \in Addrs |-> <<>>]
  /\ hist = NoHist
  /\ snaps = [i \in Insts |-> NoSnaps]
  /\ budget = MaxImageOps

NextImage ==
  \/ \E preimage \in Images : DoAddPreimage(1, "p1", preimage)
  \/ DoAddPreimage(1, "p2", "p2")
  \/ DoAddBalance(1, "A", 1)
  \/ DoSnapshot(1)
  \/ \E revid \in RevIds : DoRevertToSnapshot(1, revid)
  \/ DoFinalise(1, TRUE)

SpecImage == InitImage /\ [][NextImage]_vars

\* logs added in two transactions, with snapshots and reverts, transaction and
\* block boundaries, a Copy and a Reset
InitLogs ==
  /\ sdb = [i \in Insts |-> IF i = 1 THEN New(1, EmptyTrie, {}) ELSE NoDB]
  /\ badger = [a \in Addrs |-> <<>>]
  /\ hist = NoHist
  /\ snaps = [i \in Insts |-> NoSnaps]
  /\ budget = MaxLogOps

NextLogs ==
  \/ DoCopy(1, 2)
  \/ \E i \in Insts :
       \/ DoAddLog(i, "A")
       \/ DoPrepare(i, "t1", 1)
       \/ DoSnapshot(i)
       \/ \E revid \in RevIds : DoRevertToSnapshot(i, revid)
       \/ DoFinalise(i, TRUE)
       \/ DoCommit(i, FALSE)
       \/ DoReset(i, "empty", TRUE)

SpecLogs == InitLogs /\ [][NextLogs]_vars

\* snapshots taken over several transactions and blocks of one StateDB, with
\* reverts and a Reset in between
InitIds ==
  /\ sdb = [i \in Insts |-> IF i = 1 THEN New(1, EmptyTrie, {}) ELSE NoDB]
  /\ badger = [a \in Addrs |-> <<>>]
  /\ hist = NoHist
  /\ snaps = [i \in Insts |-> NoSnaps]
  /\ budget = MaxIdOps

NextIds ==
  \/ DoSnapshot(1)
  \/ \E revid \in RevIds : DoRevertToSnapshot(1, revid)
  \/ DoAddBalance(1, "A", 1)
  \/ DoSuicide(1, "A")
  \/ DoFinalise(1, TRUE)
  \/ DoCommit(1, TRUE)
  \/ DoDeleteSuicides(1)
  \/ \E which \in {"empty", "current"}, opens \in BOOLEAN : DoReset(1, which, opens)

SpecIds == InitIds /\ [][NextIds]_vars

\* touches of an account and of the ripeMD address that are reverted, across
\* transaction and block boundaries
InitDirty ==
  /\ sdb = [i \in Insts |-> IF i = 1 THEN New(1, EmptyTrie, {}) ELSE NoDB]
  /\ badger = [a \in Addrs |-> <<>>]
  /\ hist = NoHist
  /\ snaps = [i \in Insts |-> NoSnaps]
  /\ budget = MaxDirtyOps

NextDirty ==
  \/ \E a \in {"A", ripemd} : DoAddBalance(1, a, 0)
  \/ DoAddBalance(1, "A", 1)
  \/ DoSnapshot(1)
  \/ DoRevertToSnapshot(1, 0)
  \/ \E d \in BOOLEAN : DoFinalise(1, d)
  \/ \E d \in BOOLEAN : DoCommit(1, d)

SpecDirty == InitDirty /\ [][NextDirty]_vars

\* two accounts written in one block and committed, on a database that may
\* fail to commit the storage trie of A or to open the trie Reset asks for
InitCommit ==
  /\ sdb = [i \in Insts |->
              IF i = 1
              THEN New(1, [EmptyTrie EXCEPT !["A"] =
                             <<0, 1, EmptyStorage, emptyCode>>], {})
              ELSE NoDB]
  /\ badger = [a \in Addrs |-> <<>>]
  /\ hist = NoHist
  /\ snaps = [i \in Insts |-> NoSnaps]
  /\ budget = MaxCommitOps

NextCommit ==
  \/ \E a \in Addrs : DoAddBalance(1, a, 1)
  \/ DoSubBalance(1, "A", 1)
  \/ DoSetState(1, "A", "k1", 1)
  \/ DoSetCode(1, "A", "c1")
  \/ DoSuicide(1, "A")
  \/ DoAddRefund(1, 1)
  \/ DoSnapshot(1)
  \/ \E d \in BOOLEAN : DoFinalise(1, d)
  \/ DoIntermediateRoot(1, TRUE)
  \/ DoDeleteSuicides(1)
  \/ \E d \in BOOLEAN : DoCommit(1, d)
  \/ \E d \in BOOLEAN, order \in AddrOrders : DoCommitFailing(1, d, order, "A")
  \/ \E opens \in BOOLEAN : DoReset(1, "empty", opens)

SpecCommit == InitCommit /\ [][NextCommit]_vars

\* a StateDB on a database whose trie reads of B fail, whose trie writes of
\* A or B fail, or both
InitErr ==
  /\ \E faulty \in {{"B"}, {Write("A")}, {"B", Write("A")}, {"B", Write("B")}} :
        sdb = [i \in Insts |->
                 IF i = 1
                 THEN New(1, [EmptyTrie EXCEPT !["A"] =
                                <<0, 1, EmptyStorage, emptyCode>>], faulty)
                 ELSE NoDB]
  /\ badger = [a \in Addrs |-> <<>>]
  /\ hist = NoHist
  /\ snaps = [i \in Insts |-> NoSnaps]
  /\ budget = MaxErrOps

NextErr ==
  \/ \E a \in Addrs : DoRead(1, a)
  \/ \E a \in Addrs : DoAddBalance(1, a, 1)
  \/ DoSuicide(1, "A")
  \/ DoSnapshot(1)
  \/ DoRevertToSnapshot(1, 0)
  \/ \E d \in BOOLEAN : DoFinalise(1, d)
  \/ \E d \in BOOLEAN : DoCommit(1, d)
  \/ \E which \in {"empty", "same"}, opens \in BOOLEAN : DoReset(1, which, opens)

SpecErr == InitErr /\ [][NextErr]_vars

\* one transaction after another on a trie that holds A: balance and storage
\* writes that leave A empty or not, Suicide, touches of the ripeMD address,
\* reads that load A without dirtying it, snapshots and reverts
InitFinalise ==
  /\ sdb = [i \in Insts |->
              IF i = 1
              THEN New(1, [EmptyTrie EXCEPT !["A"] =
                             <<0, 1, EmptyStorage, emptyCode>>], {})
              ELSE NoDB]
  /\ badger = [a \in Addrs |-> <<>>]
  /\ hist = NoHist
  /\ snaps = [i \in Insts |-> NoSnaps]
  /\ budget = MaxFinaliseOps

NextFinalise ==
  \/ DoRead(1, "A")
  \/ DoAddBalance(1, "A", 1)
  \/ DoSubBalance(1, "A", 1)
  \/ DoAddBalance(1, ripemd, 0)
  \/ DoSetState(1, "A", "k1", 1)
  \/ DoSuicide(1, "A")
  \/ DoSnapshot(1)
  \/ DoRevertToSnapshot(1, 0)
  \/ \E d \in BOOLEAN : DoFinalise(1, d)

SpecFinalise == InitFinalise /\ [][NextFinalise]_vars

\* snapshots and reverts on either side of a transaction boundary: a
\* Finalise, an IntermediateRoot, a Commit (that may fail), a DeleteSuicides
\* or a Reset (that may fail)
InitBoundary ==
  /\ sdb = [i \in Insts |->
              IF i = 1
              THEN New(1, [EmptyTrie EXCEPT !["A"] =
                             <<0, 1, EmptyStorage, emptyCode>>], {})
              ELSE NoDB]
  /\ badger = [a \in Addrs |-> <<>>]
  /\ hist = NoHist
  /\ snaps = [i \in Insts |-> NoSnaps]
  /\ budget = MaxBoundaryOps

NextBoundary ==
  \/ DoSnapshot(1)
  \/ \E revid \in RevIds : DoRevertToSnapshot(1, revid)
  \/ DoAddBalance(1, "A", 1)
  \/ DoSetState(1, "A", "k1", 1)
  \/ DoFinalise(1, TRUE)
  \/ DoIntermediateRoot(1, TRUE)
  \/ DoCommit(1, TRUE)
  \/ \E order \in AddrOrders : DoCommitFailing(1, TRUE, order, "A")
  \/ DoDeleteSuicides(1)
  \/ \E opens \in BOOLEAN : DoReset(1, "same", opens)

SpecBoundary == InitBoundary /\ [][NextBoundary]_vars

\* Suicide on an account that is in the trie or not, cached or not, already
\* suicided, deleted by an earlier Finalise, or at an address (B) whose trie
\* read fails
InitSuicide ==
  /\ \E acc \in {<<>>, <<0, 1, EmptyStorage, emptyCode>>} :
        sdb = [i \in Insts |->
                 IF i = 1 THEN New(1, [EmptyTrie EXCEPT !["A"] = acc], {"B"})
                 ELSE NoDB]
  /\ badger = [a \in Addrs |-> <<>>]
  /\ hist = NoHist
  /\ snaps = [i \in Insts |-> NoSnaps]
  /\ budget = MaxSuicideOps

NextSuicide ==
  \/ \E a \in Addrs : DoSuicide(1, a)
  \/ \E amount \in {0, 1} : DoAddBalance(1, "A", amount)
  \/ DoRead(1, "A")
  \/ DoSnapshot(1)
  \/ DoRevertToSnapshot(1, 0)
  \/ \E d \in BOOLEAN : DoFinalise(1, d)
  \/ DoDeleteSuicides(1)

SpecSuicide == InitSuicide /\ [][NextSuicide]_vars

\* what the getters return for address a
Reads(s, a) ==
  [Exist |-> Exist(s, a), Empty |-> Empty(s, a), GetBalance |-> GetBalance(s, a),
   GetNonce |-> GetNonce(s, a), GetCode |-> GetCode(s, a),
   GetCodeHash |-> GetCodeHash(s, a), HasSuicided |-> HasSuicided(s, a),
   touched |-> getStateObject(s, a).obj.touched,
   GetState |-> [k \in Keys |-> GetState(s, a, k).value]]

\* the working set as reads see it
WorkingSet(s) ==
  [reads |-> [a \in Addrs |-> Reads(s, a)], refund |-> GetRefund(s),
   logs |-> [h \in TxHashes |-> GetLogs(s, h)], logSize |-> s.logSize,
   preimages |-> s.preimages]

RevisionIds(s) == {s.validRevisions[k].id : k \in 1..Len(s.validRevisions)}

C2_RevertRestoresWorkingSet ==
  [][(hist'.op = "RevertToSnapshot" /\ hist'.ok)
       => WorkingSet(sdb'[hist'.i]) = WorkingSet(snaps[hist'.i][hist'.n])]_vars

\* C3: RevertToSnapshot(id) succeeds exactly on a valid id, and then leaves
\* valid the ids below it and no other: after reverting to S2 the older S1 is
\* still valid, after reverting to S1 the younger S2 is not and panics
C3_NestedSnapshots ==
  [][hist'.op = "RevertToSnapshot"
       => /\ hist'.ok <=> hist'.n \in RevisionIds(sdb[hist'.i])
          /\ hist'.ok <=> ~sdb'[hist'.i].panicked
          /\ hist'.ok => RevisionIds(sdb'[hist'.i])
                          = {id \in RevisionIds(sdb[hist'.i]) : id < hist'.n}]_vars

\* the younger snapshot 1 reverted to after the older, with journal entries
\* left: the revert panicked
C3_Witness ==
  /\ hist.op = "RevertToSnapshot" /\ ~hist.ok /\ hist.n = 1
  /\ hist.prev = "RevertToSnapshot"
  /\ sdb[1].panicked /\ sdb[1].nextRevisionId = 2
  /\ budget = MaxSnapOps - 4

\* C6: a Commit called while dbErr holds a memoized error returns that error
C6_CommitSurfacesDbErr ==
  [][(hist'.op = "Commit" /\ sdb[hist'.i].dbErr # NoErr)
       => hist'.err = sdb[hist'.i].dbErr]_vars

\* what the getters return for an address with no visible object
NoReads ==
  [Exist |-> FALSE, Empty |-> TRUE, GetBalance |-> 0, GetNonce |-> 0,
   GetCode |-> "", GetCodeHash |-> ZeroHash, HasSuicided |-> FALSE,
   touched |-> FALSE, GetState |-> [k \in Keys |-> 0]]

\* C7: a getter on an address that has no live object and whose trie read
\* fails or finds no entry returns the default, inserts nothing into
\* StateObjects, memoizes the read's error if it is the first, and does not
\* panic
C7_ReadErrorsDeferred ==
  [][(/\ hist'.op = "Read"
      /\ ~sdb[hist'.i].StateObjects[hist'.a].exists
      /\ Len(TryGet(sdb[hist'.i], hist'.a).enc) = 0)
       => /\ Reads(sdb[hist'.i], hist'.a) = NoReads
          /\ ~hist'.ok /\ hist'.n = 0
          /\ sdb'[hist'.i].StateObjects = sdb[hist'.i].StateObjects
          /\ sdb'[hist'.i].dbErr = IF sdb[hist'.i].dbErr = NoErr
                                   THEN TryGet(sdb[hist'.i], hist'.a).err
                                   ELSE sdb[hist'.i].dbErr
          /\ ~sdb'[hist'.i].panicked
          /\ Reads(sdb'[hist'.i], hist'.a) = NoReads]_vars

\* a read of B, whose trie read fails: the error is memoized, no object inserted
C7_Witness ==
  /\ hist.op = "Read" /\ hist.a = "B" /\ ~hist.ok
  /\ sdb[1].dbErr = "TryGet(B)"
  /\ ~sdb[1].StateObjects["B"].exists

\* after Suicide(a) on a visible account the balance reads 0, HasSuicided is
\* true and the account still exists
SuicideZeroes ==
  (hist'.op = "Suicide" /\ hist'.ok)
    => /\ GetBalance(sdb'[hist'.i], hist'.a) = 0
       /\ HasSuicided(sdb'[hist'.i], hist'.a)
       /\ Exist(sdb'[hist'.i], hist'.a)

\* Finalise leaves address a marked deleted, out of the account trie and
\* invisible to reads
FinaliseDeletes(a) ==
  /\ sdb'[hist'.i].StateObjects[a].deleted
  /\ sdb'[hist'.i].trie[a] = <<>>
  /\ Reads(sdb'[hist'.i], a) = NoReads

StorageOf(s, a) == IF s.trie[a] = <<>> THEN EmptyStorage ELSE DecodeRLP(s.trie[a]).Root

\* C10: a Commit that follows SetState(a, k, zero) leaves slot k out of the
\* storage trie recorded for a, and GetState(a, k) zero; and GetState of a
\* slot that neither cache nor the storage trie holds is zero
C10_ZeroSlotDeletion ==
  [][/\ (hist'.op = "Commit" /\ hist.op = "SetState" /\ hist.n = 0)
          => /\ StorageOf(sdb'[hist'.i], hist.a)[hist.key] = <<>>
             /\ GetState(sdb'[hist'.i], hist.a, hist.key).value = 0
     /\ \A i \in Insts, a \in Addrs, k \in Keys :
          LET obj == getStateObject(sdb'[i], a).obj
          IN  (/\ obj.exists /\ obj.dirtyStorage[k] = -1 /\ obj.cachedStorage[k] = -1
               /\ obj.trie[k] = <<>>)
                => GetState(sdb'[i], a, k).value = 0]_vars

\* the slot the trie held with value 1, written zero and committed: the
\* account is still there, its storage root the empty one
C10_Witness ==
  /\ hist.op = "Commit" /\ hist.prev = "SetState" /\ budget = MaxOps - 2
  /\ sdb[1].trie["A"] # <<>>
  /\ sdb[1].StateObjects["A"].Nonce = 1
  /\ StorageOf(sdb[1], "A") = EmptyStorage
  /\ GetState(sdb[1], "A", "k1").value = 0

\* the (Account, storage-slot map, code) tuple of every visible address
Tuples(s) ==
  [a \in Addrs |->
     IF Exist(s, a)
     THEN <<GetNonce(s, a), GetBalance(s, a),
            [k \in Keys |-> GetState(s, a, k).value], GetCode(s, a)>>
     ELSE <<>>]

\* both instances return the same root from Commit(true) and from
\* IntermediateRoot(true)
SameRoots ==
  /\ Commit(sdb[1], TRUE).root = Commit(sdb[2], TRUE).root
  /\ IntermediateRoot(sdb[1], TRUE).root = IntermediateRoot(sdb[2], TRUE).root

\* no live object of s is suicided or deleted, no visible account is empty,
\* and a live object that is not dirty is what the account trie holds
Settled(s) ==
  \A a \in Addrs :
    LET obj == s.StateObjects[a]
    IN  /\ obj.exists
            => /\ ~obj.suicided /\ ~obj.deleted
               /\ \/ a \in DirtyAddrs(s.journal) \cup s.stateObjectsDirty
                  \/ EncodeRLP(CommitTrie(obj)) = s.trie[a]
        /\ Exist(s, a) => ~empty(getStateObject(s, a).obj)

C5_CopyIndependence ==
  [][\A j \in Insts :
       (sdb[j].alive /\ sdb'[j].alive /\ j # hist'.i /\ hist'.op # "Copy")
         => /\ WorkingSet(sdb'[j]) = WorkingSet(sdb[j])
            /\ \A d \in BOOLEAN : IntermediateRoot(sdb'[j], d).root
                                    = IntermediateRoot(sdb[j], d).root
            /\ sdb'[j] = sdb[j]]_vars

\* the source adds to the balance of an account it had changed before the
\* copy: the copy, which holds its own object for it, still reads the old one
C5_Witness ==
  /\ hist.op = "AddBalance" /\ hist.i = 1 /\ sdb[2].alive
  /\ sdb[2].StateObjects["A"].exists /\ sdb[2].StateObjects["A"].db = 2
  /\ GetBalance(sdb[2], "A") = 1 /\ GetBalance(sdb[1], "A") = 2

\* C11: AddRefund(g) appends one refundChange holding the refund as it was
\* and adds g; a RevertToSnapshot(id) that succeeds leaves GetRefund() as it
\* was when Snapshot() returned id
C11_RefundJournaling ==
  [][/\ hist'.op = "AddRefund"
          => LET j == sdb'[hist'.i].journal.entries
             IN  /\ Len(j) = Len(sdb[hist'.i].journal.entries) + 1
                 /\ j[Len(j)].kind = "refund"
                 /\ j[Len(j)].n = GetRefund(sdb[hist'.i])
                 /\ GetRefund(sdb'[hist'.i]) = GetRefund(sdb[hist'.i]) + hist'.n
     /\ (hist'.op = "RevertToSnapshot" /\ hist'.ok)
          => GetRefund(sdb'[hist'.i]) = GetRefund(snaps[hist'.i][hist'.n])]_vars

\* a revert that undid exactly the last AddRefund and left the refund that an
\* AddRefund before the snapshot had made
C11_Witness ==
  /\ hist.op = "RevertToSnapshot" /\ hist.ok /\ hist.prev = "AddRefund"
  /\ hist.undone = 1
  /\ GetRefund(sdb[1]) = 1
  /\ Len(sdb[1].journal.entries) = 1 /\ sdb[1].journal.entries[1].kind = "refund"

\* Copy leaves the copy with an empty journal and no valid revision, and the
\* source with the journal and the revisions it had
CopyStartsAfresh ==
  (hist'.op = "Copy" /\ hist'.ok)
    => /\ sdb'[hist'.copy].journal = newJournal
       /\ sdb'[hist'.copy].validRevisions = <<>>
       /\ sdb'[hist'.i].journal = sdb[hist'.i].journal
       /\ sdb'[hist'.i].validRevisions = sdb[hist'.i].validRevisions

\* an operation on the copy leaves the source's revisions as they were, and a
\* RevertToSnapshot on the source succeeds on every id valid there
SourceKeepsRevisions ==
  /\ (hist'.copy # 0 /\ hist'.i = hist'.copy /\ hist'.op # "Copy")
       => sdb'[1].validRevisions = sdb[1].validRevisions
  /\ (hist'.op = "RevertToSnapshot" /\ hist'.i # hist'.copy
      /\ hist'.n \in RevisionIds(sdb[hist'.i]))
       => hist'.ok

\* C12 (as stated): the copy starts with an empty journal and no revision,
\* RevertToSnapshot on the copy with an id the source issued before the Copy
\* is fatal, and the source's snapshots stay valid on the source
C12_NoSnapshotMigration ==
  [][/\ CopyStartsAfresh
     /\ SourceKeepsRevisions
     /\ (hist'.op = "RevertToSnapshot" /\ hist'.i = hist'.copy
         /\ hist'.n < hist'.copiedAt)
          => ~hist'.ok]_vars

\* C12 (amended): the same, but fatal only for the ids the copy has not
\* issued itself since the Copy (its ids start again at 0); a revert on the
\* copy that succeeds restores the copy's own state at its own Snapshot
C12_NoSnapshotMigrationOwnIds ==
  [][/\ CopyStartsAfresh
     /\ SourceKeepsRevisions
     /\ (hist'.op = "RevertToSnapshot" /\ hist'.i = hist'.copy
         /\ hist'.n < hist'.copiedAt)
          => /\ hist'.n >= sdb[hist'.i].nextRevisionId => ~hist'.ok
             /\ hist'.ok => WorkingSet(sdb'[hist'.i])
                             = WorkingSet(snaps[hist'.i][hist'.n])]_vars

\* the source took snapshot 0, was copied, and the copy, which took no
\* snapshot, was asked to revert to 0: fatal, while 0 is still valid on the
\* source
C12_Witness ==
  /\ hist.op = "RevertToSnapshot" /\ hist.copy = 2 /\ hist.i = 2 /\ hist.n = 0
  /\ hist.copiedAt = 1 /\ ~hist.ok
  /\ sdb[2].panicked /\ sdb[2].nextRevisionId = 0
  /\ RevisionIds(sdb[1]) = {0}

\* what Reset starts afresh
Cleared(s) ==
  /\ \A a \in Addrs : s.StateObjects[a] = NoObject
  /\ s.stateObjectsDirty = {}
  /\ \A h \in TxHashes : s.logs[h] = <<>>
  /\ \A h \in Images : s.preimages[h] = ""
  /\ s.logSize = 0
  /\ s.journal = newJournal
  /\ s.validRevisions = <<>>
  /\ s.refund = 0
  /\ s.thash = "t0" /\ s.bhash = "t0" /\ s.txIndex = 0

\* C13: a Reset(root) that returns nil leaves the objects, the dirty set, the
\* logs, the preimages, the journal, the revisions and the refund empty, the
\* transaction context zero and the trie opened on root; a Reset whose trie
\* does not open returns the error and changes nothing
C13_ResetClears ==
  [][hist'.op = "Reset"
       => IF hist'.ok
          THEN /\ hist'.err = NoErr
               /\ Cleared(sdb'[hist'.i])
               /\ sdb'[hist'.i].trie = ResetRoot(hist'.i, hist'.key)
          ELSE /\ hist'.err # NoErr
               /\ sdb' = sdb]_vars

C13_Witness ==
  /\ hist.op = "Reset" /\ hist.ok /\ hist.key = "empty" /\ hist.prev = "AddLog"
  /\ Cleared(sdb[1])
  /\ sdb[1].trie = EmptyTrie
  /\ sdb[1].nextRevisionId = 1
  /\ sdb[1].dbErr # NoErr


Orphans(s) ==
  {a \in s.stateObjectsDirty \cup DirtyAddrs(s.journal) : ~s.StateObjects[a].exists}

\* the one abort the API documents: RevertToSnapshot with an id that is not valid
FatalRevert == hist'.op = "RevertToSnapshot" /\ hist'.n \notin RevisionIds(sdb[hist'.i])

\* C15 (as stated): no operation other than Commit and Reset aborts, but
\* RevertToSnapshot with an invalid id
C15_Total ==
  [][(hist'.op \notin {"Commit", "Reset"} /\ sdb'[hist'.i].panicked) => FatalRevert]_vars


\* C16: AddPreimage(h, p) with h absent stores p and appends one
\* addPreimageChange; with h present it changes neither preimages[h] nor the
\* journal; a revert to a snapshot taken when h was absent removes h, so that
\* the next AddPreimage(h, p') stores p'
C16_PreimageFirstWins ==
  [][/\ hist'.op = "AddPreimage"
          => LET s == sdb[hist'.i]
                 t == sdb'[hist'.i]
                 h == hist'.key
             IN  IF s.preimages[h] = ""
                 THEN /\ t.preimages[h] = hist'.image
                      /\ Len(t.journal.entries) = Len(s.journal.entries) + 1
                      /\ t.journal.entries[Len(t.journal.entries)].kind = "addPreimage"
                      /\ t.journal.entries[Len(t.journal.entries)].key = h
                 ELSE /\ t.preimages = s.preimages
                      /\ t.journal = s.journal
     /\ (hist'.op = "RevertToSnapshot" /\ hist'.ok)
          => sdb'[hist'.i].preimages = snaps[hist'.i][hist'.n].preimages]_vars

C16_Witness ==
  /\ hist.op = "AddPreimage" /\ hist.prev = "RevertToSnapshot"
  /\ hist.key = "p1" /\ hist.image = "p2"
  /\ sdb[1].preimages["p1"] = "p2"
  /\ Len(sdb[1].journal.entries) = 1
  /\ budget = MaxImageOps - 5


\* the logs s stores, under every transaction hash
StoredLogs(s) == UNION {{<<h, k>> : k \in 1..Len(s.logs[h])} : h \in TxHashes}

\* logSize counts the stored logs, whose Index values differ and are below it
LogsCounted(s) ==
  /\ s.logSize = Cardinality(StoredLogs(s))
  /\ \A p, q \in StoredLogs(s) :
       /\ s.logs[p[1]][p[2]].Index < s.logSize
       /\ p # q => s.logs[p[1]][p[2]].Index # s.logs[q[1]][q[2]].Index

\* C17: AddLog stamps the log with thash, bhash and txIndex as Prepare set
\* them and with Index = logSize before the increment, and appends it to
\* logs[thash]; in every reachable state logSize is the number of stored logs,
\* whose Index values are pairwise distinct and below logSize
C17_LogBookkeeping ==
  /\ [](\A i \in Insts : sdb[i].alive => LogsCounted(sdb[i]))
  /\ [][/\ hist'.op = "AddLog"
             => LET s == sdb[hist'.i]
                    t == sdb'[hist'.i]
                IN  /\ t.logSize = s.logSize + 1
                    /\ t.logs = [s.logs EXCEPT ![s.thash] =
                                   Append(@, [Address |-> hist'.a, TxHash |-> s.thash,
                                              BlockHash |-> s.bhash,
                                              TxIndex |-> s.txIndex,
                                              Index |-> s.logSize])]
        /\ hist'.op = "Prepare"
             => /\ sdb'[hist'.i].thash = hist'.key
                /\ sdb'[hist'.i].bhash = hist'.key
                /\ sdb'[hist'.i].txIndex = hist'.n
        /\ hist'.op \notin {"Prepare", "Reset", "Copy"}
             => \A i \in Insts :
                  /\ sdb'[i].thash = sdb[i].thash
                  /\ sdb'[i].bhash = sdb[i].bhash
                  /\ sdb'[i].txIndex = sdb[i].txIndex]_vars

C17_Witness ==
  /\ hist.op = "RevertToSnapshot" /\ hist.ok /\ hist.undone = 1
  /\ sdb[1].thash = "t1" /\ sdb[1].txIndex = 1
  /\ sdb[1].logSize = 1
  /\ Len(sdb[1].logs["t0"]) = 1 /\ sdb[1].logs["t0"][1].Index = 0
  /\ sdb[1].logs["t1"] = <<>>
  /\ sdb[1].journal.entries[1].kind = "addLog"


\* the object CreateAccount leaves at hist'.a is new: no storage cached, not
\* suicided, not deleted, and holds account
FreshWith(obj, account) ==
  /\ obj.exists /\ ~obj.suicided /\ ~obj.deleted
  /\ obj.cachedStorage = NoSlots /\ obj.dirtyStorage = NoSlots
  /\ obj.Nonce = account.Nonce /\ obj.Balance = account.Balance
  /\ obj.Root = account.Root /\ obj.CodeHash = account.CodeHash

\* the journal entry CreateAccount appended on this step
Created == sdb'[hist'.i].journal.entries[Len(sdb'[hist'.i].journal.entries)]

\* the first entry a RevertToSnapshot undoes on this step
FirstUndone ==
  sdb[hist'.i].journal.entries[Len(sdb'[hist'.i].journal.entries) + 1]

\* a revert of CreateAccount puts back the object it replaced, or removes the
\* object when it replaced none
RevertOfCreate ==
  (hist'.op = "RevertToSnapshot" /\ hist'.ok /\ hist'.undone > 0)
    => /\ FirstUndone.kind = "resetObject"
            => /\ FirstUndone.obj.exists
               /\ sdb'[hist'.i].StateObjects[FirstUndone.addr] = FirstUndone.obj
               /\ FirstUndone.obj
                    = getStateObject(snaps[hist'.i][hist'.n], FirstUndone.addr).obj
       /\ FirstUndone.kind = "createObject"
            => ~sdb'[hist'.i].StateObjects[FirstUndone.addr].exists

\* C18 (as stated): CreateAccount leaves a new object with nonce 0, no code,
\* no storage, and the balance of the visible object it replaced, 0 when
\* there was none; it journals resetObjectChange when it replaced one and
\* createObjectChange otherwise, and a revert undoes it
C18_CreateAccount ==
  [][/\ hist'.op = "CreateAccount"
          => LET prev == getStateObject(sdb[hist'.i], hist'.a).obj
             IN  /\ FreshWith(sdb'[hist'.i].StateObjects[hist'.a],
                              MkAccount(0, prev.Balance, EmptyStorage, emptyCode))
                 /\ Len(sdb'[hist'.i].journal.entries)
                      = Len(sdb[hist'.i].journal.entries) + 1
                 /\ Created.addr = hist'.a
                 /\ Created.kind = IF prev.exists THEN "resetObject" ELSE "createObject"
                 /\ prev.exists => Created.obj = prev
     /\ RevertOfCreate]_vars

\* C18: as stated, but when CreateAccount replaces no visible object and the
\* Badger store holds an account for the address, the new object holds that
\* account (its balance included)
C18_CreateAccountSeeded ==
  [][/\ hist'.op = "CreateAccount"
          => LET prev == getStateObject(sdb[hist'.i], hist'.a).obj
                 seeded == ~prev.exists /\ Len(badger[hist'.a]) > 0
             IN  /\ FreshWith(sdb'[hist'.i].StateObjects[hist'.a],
                              IF seeded THEN badger[hist'.a][1]
                              ELSE MkAccount(0, prev.Balance, EmptyStorage, emptyCode))
                 /\ Len(sdb'[hist'.i].journal.entries)
                      = Len(sdb[hist'.i].journal.entries) + 1
                 /\ Created.addr = hist'.a
                 /\ Created.kind = IF prev.exists THEN "resetObject" ELSE "createObject"
                 /\ prev.exists => Created.obj = prev
     /\ RevertOfCreate]_vars

C18_Witness ==
  /\ hist.op = "RevertToSnapshot" /\ hist.ok /\ hist.prev = "CreateAccount"
  /\ hist.undone = 1
  /\ sdb[1].StateObjects["A"].exists
  /\ sdb[1].StateObjects["A"].Nonce = 1 /\ sdb[1].StateObjects["A"].Balance = 1
  /\ sdb[1].StateObjects["A"].CodeHash = NewHash("c1")
  /\ Len(badger["A"]) > 0


\* C19: Snapshot() returns nextRevisionId and adds one to it, no operation
\* lowers nextRevisionId, and every id still valid is below it: an id is
\* greater than every id returned before, and none is returned twice
C19_MonotonicIds ==
  /\ [](\A i \in Insts : \A id \in RevisionIds(sdb[i]) : id < sdb[i].nextRevisionId)
  /\ [][/\ \A i \in Insts :
             sdb[i].alive => sdb'[i].nextRevisionId >= sdb[i].nextRevisionId
        /\ hist'.op = "Snapshot"
             => /\ hist'.n = sdb[hist'.i].nextRevisionId
                /\ sdb'[hist'.i].nextRevisionId = hist'.n + 1
                /\ hist'.n \notin RevisionIds(sdb[hist'.i])
        /\ hist'.op # "Snapshot"
             => sdb'[hist'.i].nextRevisionId = sdb[hist'.i].nextRevisionId]_vars

C19_Witness ==
  /\ hist.op = "Snapshot" /\ hist.prev = "Reset" /\ hist.n = 1
  /\ sdb[1].nextRevisionId = 2
  /\ RevisionIds(sdb[1]) = {1}


\* C20: every address of stateObjectsDirty has an object in StateObjects
C20_DirtyHaveObjects ==
  \A i \in Insts :
    sdb[i].alive => \A a \in sdb[i].stateObjectsDirty : sdb[i].StateObjects[a].exists


\* C21 (as stated): validRevisions is strictly increasing in id and in
\* journalIndex
C21_RevisionsStrictlyIncreasing ==
  \A i \in Insts :
    \A k, l \in 1..Len(sdb[i].validRevisions) :
      k < l => /\ sdb[i].validRevisions[k].id < sdb[i].validRevisions[l].id
               /\ sdb[i].validRevisions[k].journalIndex
                    < sdb[i].validRevisions[l].journalIndex

\* C21: validRevisions is strictly increasing in id and non-decreasing in
\* journalIndex, which never exceeds the journal's length: two Snapshot()
\* calls with no journalled mutation between them record the same journalIndex
C21_RevisionsIncreasing ==
  \A i \in Insts :
    /\ \A k \in 1..Len(sdb[i].validRevisions) :
         sdb[i].validRevisions[k].journalIndex <= Len(sdb[i].journal.entries)
    /\ \A k, l \in 1..Len(sdb[i].validRevisions) :
         k < l => /\ sdb[i].validRevisions[k].id < sdb[i].validRevisions[l].id
                  /\ sdb[i].validRevisions[k].journalIndex
                       <= sdb[i].validRevisions[l].journalIndex

C21_Witness ==
  /\ hist.op = "Snapshot" /\ hist.prev = "Snapshot"
  /\ Len(sdb[1].validRevisions) = 2
  /\ sdb[1].validRevisions[1] = [id |-> 0, journalIndex |-> 1]
  /\ sdb[1].validRevisions[2] = [id |-> 1, journalIndex |-> 1]


\* what the getters return for an address with no visible object
Defaults ==
  [Exist |-> FALSE, Empty |-> TRUE, GetBalance |-> 0, GetNonce |-> 0,
   GetCode |-> "", GetCodeHash |-> ZeroHash, HasSuicided |-> FALSE,
   touched |-> FALSE, GetState |-> [k \in Keys |-> 0]]

\* no read sees an object marked deleted
Invisible ==
  \A i \in Insts, a \in Addrs :
    (sdb[i].alive /\ sdb[i].StateObjects[a].exists /\ sdb[i].StateObjects[a].deleted)
      => /\ ~getStateObject(sdb[i], a).obj.exists
         /\ getStateObject(sdb[i], a).s = sdb[i]
         /\ Reads(sdb[i], a) = Defaults

\* a setter or CreateAccount on address a put a new object where the deleted
\* one was, and journalled its creation
Replaced(a) ==
  /\ hist'.op \in {"AddBalance", "SubBalance", "SetBalance", "SetNonce", "SetCode",
                   "SetState", "CreateAccount"}
  /\ hist'.a = a
  /\ sdb'[hist'.i].StateObjects[a].exists /\ ~sdb'[hist'.i].StateObjects[a].deleted
  /\ \E k \in 1..Len(sdb'[hist'.i].journal.entries) :
       /\ k > Len(sdb[hist'.i].journal.entries)
       /\ sdb'[hist'.i].journal.entries[k].kind = "createObject"
       /\ sdb'[hist'.i].journal.entries[k].addr = a

\* C22 (as stated): an object marked deleted is invisible to every read and
\* stays in StateObjects, marked deleted, until the next Reset
C22_DeletedRetained ==
  /\ []Invisible
  /\ [][\A a \in Addrs :
          (sdb[hist'.i].StateObjects[a].exists /\ sdb[hist'.i].StateObjects[a].deleted
           /\ hist'.op # "Reset")
            => /\ sdb'[hist'.i].StateObjects[a].exists
               /\ sdb'[hist'.i].StateObjects[a].deleted]_vars

\* C22: an object marked deleted is invisible to every read and stays in
\* StateObjects, marked deleted, until the next Reset or until a setter or
\* CreateAccount on its address replaces it by a new object; reverting that
\* creation removes the new object and does not put the deleted one back
C22_DeletedRetainedUntilReplaced ==
  /\ []Invisible
  /\ [][/\ \A a \in Addrs :
             (sdb[hist'.i].StateObjects[a].exists /\ sdb[hist'.i].StateObjects[a].deleted
              /\ hist'.op # "Reset")
               => \/ /\ sdb'[hist'.i].StateObjects[a].exists
                     /\ sdb'[hist'.i].StateObjects[a].deleted
                  \/ Replaced(a)
        /\ (hist'.op = "RevertToSnapshot" /\ hist'.ok /\ hist'.undone > 0
            /\ FirstUndone.kind = "createObject")
               => ~sdb'[hist'.i].StateObjects[FirstUndone.addr].exists]_vars

C22_Witness ==
  /\ hist.op = "RevertToSnapshot" /\ hist.ok /\ hist.prev = "CreateAccount"
  /\ ~sdb[1].StateObjects["A"].exists
  /\ "A" \in sdb[1].stateObjectsDirty
  /\ sdb[1].trie["A"] = <<>>


\* what clearJournalAndRefund leaves
JournalCleared(s) ==
  /\ Len(s.journal.entries) = 0
  /\ s.refund = 0
  /\ s.validRevisions = <<>>

\* C23 (as stated): the journal is empty, the refund 0 and validRevisions
\* empty right after every Finalise, IntermediateRoot, DeleteSuicides, Reset
\* and Commit, whatever they return
C23_ClearedAfterBoundary ==
  [][hist'.op \in {"Finalise", "IntermediateRoot", "DeleteSuicides", "Reset", "Commit"}
       => JournalCleared(sdb'[hist'.i])]_vars

\* C23: the journal is empty, the refund 0 and validRevisions empty right
\* after every Finalise, IntermediateRoot, DeleteSuicides and Commit, a Commit
\* that returns an error included, and after every Reset that returns nil; a
\* Reset that returns an error leaves all three as they were
C23_ClearedAfterBoundaryButFailedReset ==
  [][/\ (hist'.op \in {"Finalise", "IntermediateRoot", "DeleteSuicides", "Commit"}
         \/ (hist'.op = "Reset" /\ hist'.err = NoErr))
          => /\ JournalCleared(sdb'[hist'.i])
             /\ DirtyAddrs(sdb'[hist'.i].journal) = {}
     /\ (hist'.op = "Reset" /\ hist'.err # NoErr)
          => /\ sdb'[hist'.i].journal = sdb[hist'.i].journal
             /\ sdb'[hist'.i].refund = sdb[hist'.i].refund
             /\ sdb'[hist'.i].validRevisions = sdb[hist'.i].validRevisions]_vars

C23_Witness ==
  /\ hist.op = "Commit" /\ hist.err # NoErr /\ hist.prev = "AddRefund"
  /\ JournalCleared(sdb[1])
  /\ "A" \in sdb[1].stateObjectsDirty


\* the errors a trie call may return, and nil
ErrValues ==
  {NoErr} \cup {op \o "(" \o a \o ")" : op \in {"TryGet", "TryUpdate", "TryDelete"},
                                       a \in Addrs}

\* C24: once dbErr is non-nil no operation changes it (setError with another
\* error or with nil leaves it, Finalise, Commit, RevertToSnapshot and Reset
\* do not clear it), and while it is nil setError(nil) keeps it nil
C24_FirstErrorWins ==
  /\ [](\A e \in ErrValues :
          setError(sdb[1], e).dbErr =
            IF sdb[1].dbErr = NoErr THEN e ELSE sdb[1].dbErr)
  /\ [][sdb[1].dbErr # NoErr => sdb'[1].dbErr = sdb[1].dbErr]_vars

C24_Witness ==
  /\ sdb[1].dbErr = "TryGet(B)"
  /\ Write("A") \in sdb[1].faulty
  /\ hist.op \in {"Finalise", "Commit"} /\ hist.prev = "AddBalance"
  /\ sdb[1].trie["A"] # EncodeRLP(sdb[1].StateObjects["A"])


\* address a is left alone: its object, its trie entry and its dirty mark
Untouched(s, t, a) ==
  /\ t.StateObjects[a] = s.StateObjects[a]
  /\ t.trie[a] = s.trie[a]
  /\ (a \in t.stateObjectsDirty) = (a \in s.stateObjectsDirty)

\* what Finalise(deleteEmptyObjects) makes of address a, s being the StateDB
\* before and t the StateDB after
Finalised(s, t, a, deleteEmptyObjects) ==
  LET obj == s.StateObjects[a]
  IN  IF a \notin DirtyAddrs(s.journal) \/ ~obj.exists
      THEN Untouched(s, t, a)
      ELSE /\ a \in t.stateObjectsDirty
           /\ IF obj.suicided \/ (deleteEmptyObjects /\ empty(obj))
              THEN /\ t.StateObjects[a] = [obj EXCEPT !.deleted = TRUE]
                   /\ t.trie[a] = <<>>
              ELSE /\ t.StateObjects[a] = updateRoot(obj)
                   /\ t.trie[a] = EncodeRLP(updateRoot(obj))

\* C25: Finalise(deleteEmptyObjects) processes exactly the addresses of
\* journal.dirties: one with no entry in StateObjects is skipped, a suicided
\* or (deleteEmptyObjects and empty) object is marked deleted and removed from
\* the trie, any other gets its storage root updated and is written to the
\* trie, each processed address joins stateObjectsDirty, and the objects that
\* are not in journal.dirties and their trie entries are unchanged
C25_FinaliseProcessesDirties ==
  [][hist'.op = "Finalise"
       => \A a \in Addrs : Finalised(sdb[1], sdb'[1], a, hist'.ok)]_vars

C25_Witness ==
  /\ hist.op = "Finalise" /\ hist.ok
  /\ ~sdb[1].StateObjects[ripemd].exists
  /\ ripemd \notin sdb[1].stateObjectsDirty
  /\ sdb[1].StateObjects["A"].deleted
  /\ ~sdb[1].StateObjects["A"].suicided
  /\ sdb[1].trie["A"] = <<>>
  /\ sdb[1].stateObjectsDirty = {"A"}


\* C26 (its last sentence): after a Commit that returns without error
\* stateObjectsDirty is empty
C26_CommitLeavesNoDirty ==
  [][(hist'.op = "Commit" /\ hist'.err = NoErr)
       => sdb'[1].stateObjectsDirty = {}]_vars


\* a Commit of t has processed address a: a is no longer marked dirty and
\* is either deleted from the account trie or written with its storage
\* committed
Processed(t, a) ==
  LET obj == t.StateObjects[a]
  IN  /\ a \notin t.stateObjectsDirty
      /\ \/ obj.deleted /\ t.trie[a] = <<>>
         \/ /\ t.trie[a] = EncodeRLP(obj)
            /\ obj.Root = obj.trie
            /\ obj.dirtyStorage = NoSlots
            /\ ~obj.dirtyCode

\* C27: when CommitTrie of a dirty object fails, Commit returns the zero hash
\* and that error, the account of the object is not written, the journal,
\* the refund and validRevisions are cleared all the same, and the address
\* stays in stateObjectsDirty, so that a later Commit processes it again
C27_CommitErrorPath ==
  [][(hist'.op = "Commit" /\ hist'.err # NoErr)
       => /\ \E order \in AddrOrders :
               LET r == CommitIn(sdb[1], hist'.ok, order, {hist'.a})
               IN  r.s = sdb'[1] /\ r.err = hist'.err /\ r.root = ZeroHash
          /\ JournalCleared(sdb'[1])
          /\ hist'.a \in sdb'[1].stateObjectsDirty
          /\ sdb'[1].trie[hist'.a] = sdb[1].trie[hist'.a]
          /\ \A d \in BOOLEAN :
               /\ Commit(sdb'[1], d).err = NoErr
               /\ Processed(Commit(sdb'[1], d).s, hist'.a)]_vars

C27_Witness ==
  /\ hist.op = "Commit" /\ hist.err = "CommitTrie" /\ hist.prev = "SetState"
  /\ "A" \in sdb[1].stateObjectsDirty
  /\ sdb[1].StateObjects["A"].dirtyStorage = NoSlots
  /\ sdb[1].StateObjects["A"].Root # sdb[1].StateObjects["A"].trie
  /\ sdb[1].validRevisions = <<>>


\* C28: just after a Finalise or a Commit, the account trie has no entry for
\* any object of StateObjects that is marked deleted (an empty account
\* deleted by Finalise(true) is not written back by a later Commit(false))
C28_DeletedStayDeleted ==
  hist.op \in {"Finalise", "Commit"}
    => \A a \in Addrs :
         (sdb[1].StateObjects[a].exists /\ sdb[1].StateObjects[a].deleted)
           => sdb[1].trie[a] = <<>>


\* what the getters of s return for address a
Getters(s, a) ==
  <<Exist(s, a), Empty(s, a), GetBalance(s, a), GetNonce(s, a), GetCode(s, a),
    GetCodeHash(s, a), HasSuicided(s, a), [k \in Keys |-> GetState(s, a, k).value]>>

\* C29: right after c = s.Copy(), every read returns the same value on c as
\* on s, c.IntermediateRoot(d) equals s.IntermediateRoot(d) and c.Commit(d)
\* returns the same root as s.Commit(d), for either value of d, also when s
\* holds journaled changes that are not finalised
C29_CopyEquivalent ==
  (hist.op = "Copy" /\ hist.ok)
    => /\ \A a \in Addrs : Getters(sdb[hist.copy], a) = Getters(sdb[hist.i], a)
       /\ GetRefund(sdb[hist.copy]) = GetRefund(sdb[hist.i])
       /\ \A d \in BOOLEAN :
            /\ IntermediateRoot(sdb[hist.copy], d).root = IntermediateRoot(sdb[hist.i], d).root
            /\ Commit(sdb[hist.copy], d).root = Commit(sdb[hist.i], d).root


\* the ids Snapshot has issued so far
Issued(s) == {id \in RevIds : id < s.nextRevisionId}

\* a revert to an id that is not valid is fatal and undoes nothing, a revert
\* that succeeds consumes its id, and an id that is issued and no longer
\* valid never becomes valid again
RevertRules ==
  /\ (hist'.op = "RevertToSnapshot" /\ hist'.n \notin RevisionIds(sdb[1]))
       => sdb'[1] = [sdb[1] EXCEPT !.panicked = TRUE]
  /\ (hist'.op = "RevertToSnapshot" /\ hist'.n \in RevisionIds(sdb[1]))
       => /\ ~sdb'[1].panicked
          /\ hist'.n \notin RevisionIds(sdb'[1])
  /\ \A id \in Issued(sdb[1]) :
       id \notin RevisionIds(sdb[1]) => id \notin RevisionIds(sdb'[1])

\* C30 (as stated): after any Finalise, IntermediateRoot, Commit,
\* DeleteSuicides or Reset no id issued before is valid, so that
\* RevertToSnapshot with it is fatal and undoes nothing; and a snapshot id
\* can be reverted to at most once
C30_NoRevertAcrossBoundary ==
  [][/\ hist'.op \in {"Finalise", "IntermediateRoot", "Commit", "DeleteSuicides", "Reset"}
          => \A id \in Issued(sdb'[1]) : id \notin RevisionIds(sdb'[1])
     /\ RevertRules]_vars

\* C30: after any Finalise, IntermediateRoot, Commit (failed or not),
\* DeleteSuicides, or Reset that returns nil, no id issued before is valid,
\* so that RevertToSnapshot with it is fatal and undoes nothing, then and
\* ever after; a snapshot id can be reverted to at most once; a Reset that
\* returns an error leaves the valid ids as they were
C30_NoRevertAcrossBoundaryButFailedReset ==
  [][/\ (hist'.op \in {"Finalise", "IntermediateRoot", "Commit", "DeleteSuicides"}
         \/ (hist'.op = "Reset" /\ hist'.err = NoErr))
          => \A id \in Issued(sdb'[1]) : id \notin RevisionIds(sdb'[1])
     /\ (hist'.op = "Reset" /\ hist'.err # NoErr)
          => RevisionIds(sdb'[1]) = RevisionIds(sdb[1])
     /\ RevertRules]_vars

C30_Witness ==
  /\ hist.op = "RevertToSnapshot" /\ ~hist.ok /\ hist.prev = "AddBalance"
  /\ hist.n \in Issued(sdb[1])
  /\ sdb[1].panicked
  /\ Len(sdb[1].journal.entries) = 1
  /\ sdb[1].stateObjectsDirty = {"A"}


\* C31: Suicide(addr) returns true exactly when a visible object is at addr
\* (cached and not marked deleted, or not cached and loaded from the trie);
\* when none is, it returns false, appends nothing to the journal, creates
\* no object and changes no balance or flag; when one is, it journals the
\* suicided flag and the balance the object had, sets suicided and sets the
\* balance to 0
C31_Suicide ==
  [][hist'.op = "Suicide"
       => LET s == sdb[hist'.i]
              t == sdb'[hist'.i]
              a == hist'.a
              cached == s.StateObjects[a]
              visible == IF cached.exists THEN ~cached.deleted
                         ELSE a \notin s.faulty /\ s.trie[a] # <<>>
              was == IF cached.exists THEN cached
                     ELSE newStateObject(s.self, DecodeRLP(s.trie[a]))
              j == t.journal.entries
          IN  /\ hist'.ok = visible
              /\ ~visible
                   => /\ t.journal = s.journal
                      /\ t.StateObjects = s.StateObjects
                      /\ t.stateObjectsDirty = s.stateObjectsDirty
                      /\ t.trie = s.trie
              /\ visible
                   => /\ Len(j) = Len(s.journal.entries) + 1
                      /\ SubSeq(j, 1, Len(j) - 1) = s.journal.entries
                      /\ j[Len(j)].kind = "suicide" /\ j[Len(j)].addr = a
                      /\ j[Len(j)].flag = was.suicided
                      /\ j[Len(j)].n = was.Balance
                      /\ t.StateObjects[a] = [was EXCEPT !.suicided = TRUE, !.Balance = 0]
                      /\ \A b \in Addrs \ {a} : t.StateObjects[b] = s.StateObjects[b]]_vars

C31_Witness ==
  /\ hist.op = "Suicide" /\ hist.ok /\ hist.prev = "Suicide"
  /\ Len(sdb[1].journal.entries) = 2
  /\ sdb[1].journal.entries[1].flag = FALSE /\ sdb[1].journal.entries[1].n = 1
  /\ sdb[1].journal.entries[2].flag = TRUE /\ sdb[1].journal.entries[2].n = 0
  /\ sdb[1].StateObjects["A"].suicided


\* C32: after DeleteSuicides every object that was suicided, in the current
\* un-finalised transaction or in an earlier finalised one, is marked
\* deleted and invisible to getStateObject, stateObjectsDirty is empty, the
\* journal, the refund and validRevisions are cleared, and the account trie
\* is as it was
C32_DeleteSuicides ==
  [][(hist'.op = "DeleteSuicides" /\ ~sdb'[hist'.i].panicked)
       => LET s == sdb[hist'.i]
              t == sdb'[hist'.i]
          IN  /\ \A a \in Addrs :
                   (s.StateObjects[a].exists /\ s.StateObjects[a].suicided)
                     => /\ t.StateObjects[a].deleted
                        /\ ~getStateObject(t, a).obj.exists
              /\ t.stateObjectsDirty = {}
              /\ JournalCleared(t)
              /\ t.trie = s.trie]_vars

====
